---------------------------- MODULE Spec2Model ----------------------------
(***************************************************************************)
(* Model of arrow-typing's bit-packed Bitmap, of the generalized Slice     *)
(* views built on top of it (OptionSlice, ListSlice and the four sublist   *)
(* encodings) and of the list builder backend's bulk insertion.            *)
(*                                                                         *)
(* Every Rust function is an operator that computes what the function      *)
(* computes.  A function that can panic returns a Result record            *)
(* [ok, val]: Ok(v) for a normal return and Panic(msg) for a panic.  An    *)
(* Option is a sequence of length 0 (None) or 1 (Some).                    *)
(***************************************************************************)
EXTENDS Integers, Sequences, FiniteSets, TLC

VARIABLES
    bits,        \* test input: the unpacked booleans the byte buffer is made of
    array_len,   \* test input: the array length given to Bitmap::new
    bitmap,      \* Option<Bitmap>: the Bitmap the test currently holds
    bres,        \* the last Bitmap operation: [op, self, arg, res]
    slice,       \* Option<ListSlice>: the ListSlice the caller currently holds
    lres,        \* the last ListSlice operation: [op, self, arg, res]
    builder,     \* the GenericListBuilder: [items, offsets, validity]
    xres         \* the last builder operation: [op, arg, before, res]

vars == <<bits, array_len, bitmap, bres, slice, lres, builder, xres>>

bitmapVars == <<bits, array_len, bitmap, bres>>
listVars == <<slice, lres>>
builderVars == <<builder, xres>>

---------------------------------------------------------------------------
(* Bounds *)

\* Longest boolean sequence packed into a byte buffer (two bytes are needed
\* for a split that falls on a byte boundary).
MaxBits == 9

---------------------------------------------------------------------------
(* Option and Result *)

None == <<>>
Some(x) == <<x>>
IsSome(o) == Len(o) = 1
Unwrap(o) == o[1]

Ok(v) == [ok |-> TRUE, val |-> v]
Panic(msg) == [ok |-> FALSE, val |-> msg]

Min(a, b) == IF a <= b THEN a ELSE b

\* x as u8
AsU8(x) == x % 256

\* usize::div_ceil
DivCeil(a, b) == (a + b - 1) \div b

\* &s[from..to), with 0-based bounds as in Rust
Range(s, from, to) == SubSeq(s, from + 1, to)

---------------------------------------------------------------------------
(* bitmap.rs *)

\* byte & mask != 0, for a mask with a single bit set
TestMask(byte, mask) == (byte \div mask) % 2 = 1

RECURSIVE PackChunk(_, _)
\* tests::bits_to_bitmap, the inner loop: byte |= (bit as u8) << idx
PackChunk(chunk, idx) ==
    IF idx >= Len(chunk) THEN 0
    ELSE (IF chunk[idx + 1] THEN 2 ^ idx ELSE 0) + PackChunk(chunk, idx + 1)

\* tests::bits_to_bitmap: bits.chunks(8) mapped to bytes
bits_to_bitmap(bs) ==
    [k \in 1 .. DivCeil(Len(bs), 8) |->
        PackChunk(Range(bs, (k - 1) * 8, Min(k * 8, Len(bs))), 0)]

\* Bitmap::new with the trailer check off by one (trailer_len <= 8)
Bitmap_new_trailer_le_8(raw, alen) ==
    LET error == "bitmap and array length don't match" IN
    IF Len(raw) * 8 < alen THEN Panic(error)
    ELSE LET trailer_len == Len(raw) * 8 - alen IN
         IF ~(trailer_len <= 8) THEN Panic(error)
         ELSE Ok([kind |-> "bitmap", raw |-> raw, header_len |-> 0,
                  trailer_len |-> AsU8(trailer_len)])

\* Bitmap::new
Bitmap_new(raw, alen) ==
    LET error == "bitmap and array length don't match" IN
    IF Len(raw) * 8 < alen THEN Panic(error)
    ELSE LET trailer_len == Len(raw) * 8 - alen IN
         IF ~(trailer_len < 8) THEN Panic(error)
         ELSE Ok([kind |-> "bitmap", raw |-> raw, header_len |-> 0,
                  trailer_len |-> AsU8(trailer_len)])

\* #[derive(Default)] for Bitmap
Bitmap_default == [kind |-> "bitmap", raw |-> <<>>, header_len |-> 0, trailer_len |-> 0]

\* <Bitmap as Slice>::is_consistent
Bitmap_is_consistent(b) == TRUE

\* <Bitmap as Slice>::len that forgets the trailer bits
Bitmap_len_without_trailer(b) == Len(b.raw) * 8 - b.header_len

\* <Bitmap as Slice>::len
Bitmap_len(b) == Len(b.raw) * 8 - AsU8(b.header_len + b.trailer_len)

\* <Bitmap as Slice>::get_cloned_unchecked that forgets the header bits
Bitmap_get_cloned_unchecked_without_header(b, index) ==
    TestMask(b.raw[(index \div 8) + 1], 2 ^ (index % 8))

\* <Bitmap as Slice>::get_cloned_unchecked
Bitmap_get_cloned_unchecked(b, index) ==
    LET bit == index + b.header_len IN
    TestMask(b.raw[(bit \div 8) + 1], 2 ^ (bit % 8))

RECURSIVE Bits_take_same_byte(_, _, _, _)
\* Take<Bits> that wraps the bit around without fetching the next byte
Bits_take_same_byte(bytes, current_byte, bit, n) ==
    IF n = 0 \/ ~IsSome(current_byte) THEN <<>>
    ELSE LET result == TestMask(Unwrap(current_byte), bit)
             shifted == AsU8(bit * 2)
         IN  <<result>> \o
             Bits_take_same_byte(bytes, current_byte,
                                 IF shifted = 0 THEN 1 ELSE shifted, n - 1)

RECURSIVE Bits_take(_, _, _, _)
\* Take<Bits>: n calls of Bits::next on the iterator state
\* (bytes still to read, current_byte, bit)
Bits_take(bytes, current_byte, bit, n) ==
    IF n = 0 \/ ~IsSome(current_byte) THEN <<>>
    ELSE LET result == TestMask(Unwrap(current_byte), bit)
             shifted == AsU8(bit * 2)
         IN  IF shifted = 0
             THEN <<result>> \o
                  Bits_take(IF bytes = <<>> THEN <<>> ELSE Tail(bytes),
                            IF bytes = <<>> THEN None ELSE Some(Head(bytes)),
                            1, n - 1)
             ELSE <<result>> \o Bits_take(bytes, current_byte, shifted, n - 1)

\* <Bitmap as Slice>::iter_cloned, collected
Bitmap_iter_cloned(b) ==
    Bits_take(IF b.raw = <<>> THEN <<>> ELSE Tail(b.raw),
              IF b.raw = <<>> THEN None ELSE Some(Head(b.raw)),
              AsU8(2 ^ b.header_len),
              Bitmap_len(b))

\* <Bitmap as Slice>::split_at that gives the tail 8 - head.trailer_len as
\* its header_len wherever the split falls
Bitmap_split_at_header_always(b, mid) ==
    IF ~(mid <= Bitmap_len(b)) THEN Panic("split point is out of bounds")
    ELSE
    LET mid_bit == mid + b.header_len
        num_head_bytes == DivCeil(mid_bit, 8)
        first_tail_byte == mid_bit \div 8
    IN
    IF num_head_bytes > Len(b.raw) \/ first_tail_byte > Len(b.raw)
    THEN Panic("range end index out of range for slice")
    ELSE
    LET head_bitmap == Range(b.raw, 0, num_head_bytes)
        head == [kind |-> "bitmap", raw |-> head_bitmap,
                 header_len |-> b.header_len,
                 trailer_len |-> AsU8(Len(head_bitmap) * 8 - mid_bit)]
        tail == [kind |-> "bitmap",
                 raw |-> Range(b.raw, first_tail_byte, Len(b.raw)),
                 header_len |-> 8 - head.trailer_len,
                 trailer_len |-> b.trailer_len]
    IN  Ok(<<head, tail>>)

\* <Bitmap as Slice>::split_at that gives the tail the head's trailer_len
\* as its header_len
Bitmap_split_at_tail_header(b, mid) ==
    IF ~(mid <= Bitmap_len(b)) THEN Panic("split point is out of bounds")
    ELSE
    LET mid_bit == mid + b.header_len
        num_head_bytes == DivCeil(mid_bit, 8)
        first_tail_byte == mid_bit \div 8
    IN
    IF num_head_bytes > Len(b.raw) \/ first_tail_byte > Len(b.raw)
    THEN Panic("range end index out of range for slice")
    ELSE
    LET head_bitmap == Range(b.raw, 0, num_head_bytes)
        head == [kind |-> "bitmap", raw |-> head_bitmap,
                 header_len |-> b.header_len,
                 trailer_len |-> AsU8(Len(head_bitmap) * 8 - mid_bit)]
        tail == [kind |-> "bitmap",
                 raw |-> Range(b.raw, first_tail_byte, Len(b.raw)),
                 header_len |-> head.trailer_len,
                 trailer_len |-> b.trailer_len]
    IN  Ok(<<head, tail>>)

\* <Bitmap as Slice>::split_at
Bitmap_split_at(b, mid) ==
    IF ~(mid <= Bitmap_len(b)) THEN Panic("split point is out of bounds")
    ELSE
    LET mid_bit == mid + b.header_len
        num_head_bytes == DivCeil(mid_bit, 8)
        first_tail_byte == mid_bit \div 8
    IN
    IF num_head_bytes > Len(b.raw) \/ first_tail_byte > Len(b.raw)
    THEN Panic("range end index out of range for slice")
    ELSE
    LET head_bitmap == Range(b.raw, 0, num_head_bytes)
        head == [kind |-> "bitmap", raw |-> head_bitmap,
                 header_len |-> b.header_len,
                 trailer_len |-> AsU8(Len(head_bitmap) * 8 - mid_bit)]
        header_len == IF mid_bit % 8 = 0 THEN 0 ELSE 8 - head.trailer_len
        tail == [kind |-> "bitmap",
                 raw |-> Range(b.raw, first_tail_byte, Len(b.raw)),
                 header_len |-> header_len,
                 trailer_len |-> b.trailer_len]
    IN  Ok(<<head, tail>>)

---------------------------------------------------------------------------
(* element/mod.rs: the provided methods of Slice, here for a Bitmap *)

\* Slice::is_empty
Bitmap_is_empty(b) == Bitmap_len(b) = 0

\* Slice::get_cloned
Bitmap_get_cloned(b, index) ==
    IF Bitmap_is_consistent(b) /\ index < Bitmap_len(b)
    THEN Some(Bitmap_get_cloned_unchecked(b, index))
    ELSE None

\* Slice::at
Bitmap_at(b, index) ==
    LET r == Bitmap_get_cloned(b, index) IN
    IF IsSome(r) THEN Ok(Unwrap(r)) ELSE Panic("index is out of bounds")

\* The elements of a Slice<Element = bool>: a Bitmap or a &[bool]
Bools_iter_cloned(s) ==
    IF s.kind = "bitmap" THEN Bitmap_iter_cloned(s) ELSE s.data

\* Iterator::cmp over bools, as called by Ord and PartialOrd: the first
\* position that differs decides, false before true; without one the
\* shorter sequence comes first
Iterator_cmp(a, b) ==
    LET n == Min(Len(a), Len(b))
        differ == {i \in 1 .. n : a[i] # b[i]}
    IN  IF differ # {}
        THEN LET i == CHOOSE i \in differ : \A j \in differ : i <= j IN
             IF b[i] THEN "Less" ELSE "Greater"
        ELSE IF Len(a) < Len(b) THEN "Less"
        ELSE IF Len(a) > Len(b) THEN "Greater"
        ELSE "Equal"

\* Equality of the fields, as #[derive(PartialEq)] would compare Bitmaps
Bitmap_eq_fields(b, other) ==
    IF other.kind = "bitmap" THEN b = other
    ELSE Bitmap_iter_cloned(b) = other.data

\* <Bitmap as PartialEq<OtherBools>>::eq: self.iter().eq(other.iter_cloned())
Bitmap_eq(b, other) == Bitmap_iter_cloned(b) = Bools_iter_cloned(other)

\* <Bitmap as PartialOrd<OtherBools>>::partial_cmp
Bitmap_partial_cmp(b, other) ==
    Some(Iterator_cmp(Bitmap_iter_cloned(b), Bools_iter_cloned(other)))

\* <Bitmap as Ord>::cmp
Bitmap_cmp(b, other) ==
    Iterator_cmp(Bitmap_iter_cloned(b), Bitmap_iter_cloned(other))

\* <Bitmap as Hash>::hash: what the Hasher is fed, in order
Bitmap_hash(b) == <<Bitmap_len(b)>> \o Bitmap_iter_cloned(b)

---------------------------------------------------------------------------
(* The Bitmap tests (bitmap.rs, mod tests) as a state machine *)

\* Boolean sequences of length n with at most one bit set or at most one
\* bit clear: every bit position is told apart from every other one.
BitSeqs(n) ==
    {s \in [1 .. n -> BOOLEAN] :
        \/ Cardinality({i \in 1 .. n : s[i]}) <= 1
        \/ Cardinality({i \in 1 .. n : ~s[i]}) <= 1}

\* Array lengths tried against a buffer packed from n bits: the matching
\* one, and ones that are off by a bit or by a byte in either direction.
ArrayLens(n) == {n + d : d \in {-8, -1, 0, 1, 8}} \cap Nat

NoOp == [op |-> "none"]

InitBitmap ==
    /\ \E n \in 0 .. MaxBits : bits \in BitSeqs(n)
    /\ array_len \in ArrayLens(Len(bits))
    /\ bitmap = None
    /\ bres = NoOp
    /\ slice = None
    /\ lres = NoOp
    /\ builder = None
    /\ xres = NoOp

\* tests::init: Bitmap::new(&raw_bitmap, array_len)
New ==
    /\ bres.op = "none"
    /\ bitmap = None
    /\ LET res == Bitmap_new(bits_to_bitmap(bits), array_len) IN
       /\ bres' = [op |-> "new", res |-> res]
       /\ bitmap' = IF res.ok THEN Some(res.val) ELSE None
    /\ UNCHANGED <<bits, array_len, listVars, builderVars>>

\* Bitmap::default()
Default ==
    /\ bres.op = "none"
    /\ bitmap = None
    /\ bres' = [op |-> "default", res |-> Ok(Bitmap_default)]
    /\ bitmap' = Some(Bitmap_default)
    /\ UNCHANGED <<bits, array_len, listVars, builderVars>>

\* tests::index: bitmap.get_cloned(index), bitmap.at(index) and, in bounds,
\* bitmap.get_cloned_unchecked(index)
Get(index) ==
    /\ IsSome(bitmap)
    /\ LET b == Unwrap(bitmap) IN
       bres' = [op |-> "get", self |-> b, arg |-> index,
                res |-> [get |-> Bitmap_get_cloned(b, index),
                         at |-> Bitmap_at(b, index),
                         unchecked |-> IF index < Bitmap_len(b)
                                       THEN Some(Bitmap_get_cloned_unchecked(b, index))
                                       ELSE None]]
    /\ UNCHANGED <<bits, array_len, bitmap, listVars, builderVars>>

\* tests::init: bitmap.len(), bitmap.is_empty(), bitmap.iter()
Iter ==
    /\ IsSome(bitmap)
    /\ LET b == Unwrap(bitmap) IN
       bres' = [op |-> "iter", self |-> b,
                res |-> [len |-> Bitmap_len(b),
                         is_empty |-> Bitmap_is_empty(b),
                         iter |-> Bitmap_iter_cloned(b)]]
    /\ UNCHANGED <<bits, array_len, bitmap, listVars, builderVars>>

\* tests::split_at: bitmap.split_at(mid); the caller goes on with one of
\* the two halves
SplitAt(mid, keep) ==
    /\ IsSome(bitmap)
    /\ LET b == Unwrap(bitmap)
           res == Bitmap_split_at(b, mid)
       IN  /\ bres' = [op |-> "split_at", self |-> b, arg |-> mid, res |-> res]
           /\ bitmap' = IF res.ok THEN Some(res.val[keep]) ELSE bitmap
    /\ UNCHANGED <<bits, array_len, listVars, builderVars>>

\* Bitmaps longer than this are not compared
MaxCompareBits == 3

\* What a Bitmap is compared with: a &[bool], the Bitmap newly made of the
\* same bools, and the Bitmap of the same bools that split_at leaves behind
\* bits of another element on both sides
CompareOperands ==
    LET bools == UNION {[1 .. n -> BOOLEAN] : n \in 0 .. MaxCompareBits}
        unpacked == {[kind |-> "flat", data |-> x] : x \in bools}
        made == {Bitmap_new(bits_to_bitmap(x), Len(x)).val : x \in bools}
        inside == {Bitmap_split_at(
                       Bitmap_split_at(
                           Bitmap_new(bits_to_bitmap(<<TRUE>> \o x \o <<TRUE>>),
                                      Len(x) + 2).val,
                           1).val[2],
                       Len(x)).val[1] : x \in bools}
    IN  unpacked \cup made \cup inside

\* tests::index, tests::split_at: bitmap == other, and the comparisons and
\* hashes of the two, on a Bitmap just made or just split
Compare(other) ==
    /\ IsSome(bitmap)
    /\ bres.op # "compare"
    /\ Bitmap_len(Unwrap(bitmap)) <= MaxCompareBits
    /\ LET b == Unwrap(bitmap) IN
       bres' = [op |-> "compare", self |-> b, arg |-> other,
                res |-> [eq |-> Bitmap_eq(b, other),
                         partial_cmp |-> Bitmap_partial_cmp(b, other),
                         cmp |-> IF other.kind = "bitmap"
                                 THEN Some(Bitmap_cmp(b, other)) ELSE None,
                         hash |-> Bitmap_hash(b),
                         other_hash |-> IF other.kind = "bitmap"
                                        THEN Some(Bitmap_hash(other)) ELSE None]]
    /\ UNCHANGED <<bits, array_len, bitmap, listVars, builderVars>>

NextBitmap ==
    \/ New
    \/ Default
    \/ \E index \in 0 .. MaxBits + 1 :
          /\ IsSome(bitmap) /\ index <= Bitmap_len(Unwrap(bitmap)) + 1
          /\ Get(index)
    \/ Iter
    \/ \E mid \in 0 .. MaxBits + 1, keep \in {1, 2} :
          /\ IsSome(bitmap) /\ mid <= Bitmap_len(Unwrap(bitmap)) + 1
          /\ SplitAt(mid, keep)

SpecBitmap == InitBitmap /\ [][NextBitmap]_vars

\* tests::index, tests::split_at: the Bitmap made of the bools
InitCompare ==
    /\ \E n \in 0 .. MaxBits : bits \in BitSeqs(n)
    /\ array_len = Len(bits)
    /\ bitmap = Some(Bitmap_new(bits_to_bitmap(bits), array_len).val)
    /\ bres = NoOp
    /\ slice = None
    /\ lres = NoOp
    /\ builder = None
    /\ xres = NoOp

NextCompare ==
    \/ \E other \in CompareOperands : Compare(other)
    \/ \E mid \in 0 .. MaxBits, keep \in {1, 2} :
          /\ mid <= Bitmap_len(Unwrap(bitmap))
          /\ SplitAt(mid, keep)

SpecCompare == InitCompare /\ [][NextCompare]_vars

---------------------------------------------------------------------------
(* Bitmap properties *)

\* What tests::init builds from its inputs
FreshBitmap == Bitmap_new(bits_to_bitmap(bits), array_len)

\* The last operation was applied to the Bitmap that Bitmap::new returned
OnFreshBitmap == FreshBitmap.ok /\ bres.self = FreshBitmap.val

C2_FreshLenIsArrayLen ==
    (bres.op = "iter" /\ OnFreshBitmap) =>
        /\ bres.res.len = array_len
        /\ bres.res.is_empty = (array_len = 0)
        /\ Len(bres.res.iter) = array_len

\* len, is_empty and iter were called on a fresh Bitmap with unused bits
C2_Witness ==
    /\ bres.op = "iter" /\ OnFreshBitmap
    /\ array_len > 8 /\ bres.self.trailer_len > 0

\* C3: iterating Bitmap::new(bits_to_bitmap(bits), bits.len()) yields bits,
\* for the empty sequence too; byte 0b00000101 with array_len 3 iterates as
\* [true, false, true].
C3_PackThenIterIsIdentity ==
    (bres.op = "iter" /\ OnFreshBitmap /\ array_len = Len(bits)) =>
        /\ bres.res.iter = bits
        /\ \A idx \in 0 .. Len(bits) - 1 :
              bits[idx + 1] =
                  TestMask(bits_to_bitmap(bits)[(idx \div 8) + 1], 2 ^ (idx % 8))

\* The scenario: [true, false, true] was packed into 0b00000101 and iterated
C3_Witness ==
    /\ bres.op = "iter" /\ OnFreshBitmap
    /\ bits = <<TRUE, FALSE, TRUE>> /\ array_len = 3
    /\ bres.self.raw = <<5>>
    /\ bres.res.iter = <<TRUE, FALSE, TRUE>>

\* C4: on every Bitmap, fresh or obtained by split_at, an index below len()
\* has get(i) = Some(iter().nth(i)), the same bit from get_unchecked(i) and
\* from at(i); an index at or beyond len() has get(i) = None and at(i)
\* panics.
C4_GetAgreesWithIter ==
    bres.op = "get" =>
        LET b == bres.self
            i == bres.arg
        IN  IF i < Bitmap_len(b)
            THEN /\ bres.res.get = Some(Bitmap_iter_cloned(b)[i + 1])
                 /\ bres.res.unchecked = bres.res.get
                 /\ bres.res.at = Ok(Bitmap_iter_cloned(b)[i + 1])
            ELSE /\ bres.res.get = None
                 /\ ~bres.res.at.ok

\* A set bit was read from a Bitmap that starts in the middle of a byte
C4_Witness ==
    /\ bres.op = "get"
    /\ bres.self.header_len > 0
    /\ bres.arg < Bitmap_len(bres.self)
    /\ bres.res.get = Some(TRUE)

\* C5: split_at(mid) with mid <= len() returns (head, tail) with
\* head.len() = mid, tail.len() = len() - mid and iter(head) followed by
\* iter(tail) equal to iter(self); with mid > len() it panics.
C5_SplitAtPartitionsTheBits ==
    bres.op = "split_at" =>
        LET b == bres.self
            mid == bres.arg
        IN  IF mid <= Bitmap_len(b)
            THEN /\ bres.res.ok
                 /\ Bitmap_len(bres.res.val[1]) = mid
                 /\ Bitmap_len(bres.res.val[2]) = Bitmap_len(b) - mid
                 /\ Bitmap_iter_cloned(bres.res.val[1])
                        \o Bitmap_iter_cloned(bres.res.val[2])
                    = Bitmap_iter_cloned(b)
            ELSE ~bres.res.ok

\* A Bitmap that starts in the middle of a byte was split in the middle of
\* a byte into two halves that are not empty
C5_Witness ==
    /\ bres.op = "split_at" /\ bres.res.ok
    /\ bres.self.header_len > 0
    /\ (bres.arg + bres.self.header_len) % 8 # 0
    /\ 0 < bres.arg /\ bres.arg < Bitmap_len(bres.self)
    /\ \E i \in 1 .. Bitmap_len(bres.res.val[2]) :
          Bitmap_iter_cloned(bres.res.val[2])[i]

---------------------------------------------------------------------------
(* element/mod.rs, element/option.rs, element/list.rs: slices               *)
(*                                                                         *)
(* A slice is a record tagged with its Rust type:                          *)
(*   "flat"        &[T]                          [data]                    *)
(*   "lens"        &[usize]                      [data]                    *)
(*   "option_lens" &[Option<usize>]              [data]                    *)
(*   "bitmap"      Bitmap                        [raw, header_len, ...]    *)
(*   "option"      OptionSlice<Values, Validity> [values, is_valid]        *)
(*   "offsets"     OffsetSublists<OffsetSize>    [original_offsets,        *)
(*                                                total_len]               *)
(*   "list"        ListSlice<Items, Lists>       [items, lists]            *)
(* The operators named Slice_*, Inner_* and Plain_* dispatch a trait       *)
(* method on that type, as the compiler does for each instantiation.  The  *)
(* debug_assert! lines, which restate the callers' obligations and are     *)
(* compiled out of release builds, are not modelled.                       *)

\* Width of usize in the model
UsizeBits == 16

UsizeModulus == 2 ^ UsizeBits

\* OffsetSizeTrait::as_usize: self as usize
as_usize(x) == x % UsizeModulus

\* usize::MAX
UsizeMax == UsizeModulus - 1

\* usize - usize, wrapping as in a build without overflow checks
usize_sub(a, b) == (a - b) % UsizeModulus

\* usize + usize, wrapping as in a build without overflow checks
usize_add(a, b) == (a + b) % UsizeModulus

RECURSIVE SumLens(_)
\* iter().sum::<usize>() over &[usize]
SumLens(lens) ==
    IF lens = <<>> THEN 0 ELSE usize_add(Head(lens), SumLens(Tail(lens)))

\* Option<usize>::unwrap_or(0)
unwrap_or_0(len) == IF IsSome(len) THEN Unwrap(len) ELSE 0

RECURSIVE SumOptionLens(_)
\* iter().fold(0, |acc, len| acc + len.unwrap_or(0)) over &[Option<usize>]
SumOptionLens(lens) ==
    IF lens = <<>> THEN 0
    ELSE usize_add(unwrap_or_0(Head(lens)), SumOptionLens(Tail(lens)))

(* impl Slice for &[T] *)

Flat_is_consistent(s) == TRUE

Flat_len(s) == Len(s.data)

Flat_get_cloned_unchecked(s, index) == s.data[index + 1]

Flat_iter_cloned(s) == s.data

\* <[T]>::split_at
Flat_split_at(s, mid) ==
    IF mid > Len(s.data) THEN Panic("mid > len")
    ELSE Ok(<<[kind |-> s.kind, data |-> Range(s.data, 0, mid)],
              [kind |-> s.kind, data |-> Range(s.data, mid, Len(s.data))]>>)

\* bool::then_some
then_some(b, value) == IF b THEN Some(value) ELSE None

(* Sublist, ValidSublist, OptionSublist *)

ValidSublist(offset, len) == [offset |-> offset, len |-> len]

OptionSublist(sublist, is_valid) == [sublist |-> sublist, is_valid |-> is_valid]

\* OptionSublist::from_option_len
from_option_len(offset, len) ==
    OptionSublist(ValidSublist(offset, unwrap_or_0(len)), IsSome(len))

IsOptionSublist(sublist) == "is_valid" \in DOMAIN sublist

\* Sublist::offset
Sublist_offset(sublist) ==
    IF IsOptionSublist(sublist) THEN sublist.sublist.offset ELSE sublist.offset

\* Sublist::len
Sublist_len(sublist) ==
    IF IsOptionSublist(sublist) THEN sublist.sublist.len ELSE sublist.len

\* Sublist::apply_validity
apply_validity(sublist, value) ==
    IF IsOptionSublist(sublist) THEN then_some(sublist.is_valid, value) ELSE value

(* impl Slice for OffsetSublists *)

OffsetSublists(original_offsets, total_len) ==
    [kind |-> "offsets", original_offsets |-> original_offsets,
     total_len |-> total_len]

\* OffsetSublists::offset_shift
offset_shift(l) ==
    IF l.original_offsets = <<>> THEN 0 ELSE as_usize(l.original_offsets[1])

\* is_consistent that wants strictly increasing offsets
OffsetSublists_is_consistent_strict(l) ==
    LET offsets == l.original_offsets IN
    IF offsets = <<>> THEN l.total_len = 0
    ELSE /\ \A i \in 2 .. Len(offsets) : offsets[i] > offsets[i - 1]
         /\ as_usize(offsets[Len(offsets)] - offsets[1]) <= l.total_len

OffsetSublists_is_consistent(l) ==
    LET offsets == l.original_offsets IN
    IF offsets = <<>> THEN l.total_len = 0
    ELSE /\ \A i \in 2 .. Len(offsets) : ~(offsets[i] < offsets[i - 1])
         /\ as_usize(offsets[Len(offsets)] - offsets[1]) <= l.total_len

OffsetSublists_len(l) == Len(l.original_offsets)

\* get_cloned_unchecked that leaves the offset as it is stored
OffsetSublists_get_cloned_unchecked_unshifted(l, index) ==
    LET original_offset == as_usize(l.original_offsets[index + 1])
        next_idx == index + 1
        len == IF next_idx < Len(l.original_offsets)
               THEN usize_sub(as_usize(l.original_offsets[next_idx + 1]),
                              original_offset)
               ELSE usize_sub(l.total_len, original_offset)
    IN  ValidSublist(original_offset, len)

OffsetSublists_get_cloned_unchecked(l, index) ==
    LET shift == as_usize(l.original_offsets[1])
        original_offset == as_usize(l.original_offsets[index + 1])
        relative_offset == usize_sub(original_offset, shift)
        next_idx == index + 1
        len == IF next_idx < Len(l.original_offsets)
               THEN usize_sub(as_usize(l.original_offsets[next_idx + 1]),
                              original_offset)
               ELSE usize_sub(l.total_len, relative_offset)
    IN  ValidSublist(relative_offset, len)

OffsetSublists_iter_cloned(l) ==
    LET offsets == l.original_offsets
        shift == offset_shift(l)
    IN  [i \in 1 .. Len(offsets) |->
            IF i < Len(offsets)
            THEN ValidSublist(usize_sub(as_usize(offsets[i]), shift),
                              as_usize(offsets[i + 1] - offsets[i]))
            ELSE LET offset == usize_sub(as_usize(offsets[i]), shift) IN
                 ValidSublist(offset, usize_sub(l.total_len, offset))]

\* split_at that takes the stored offset of the first right-side element
\* as the item count of the left view
OffsetSublists_split_at_unshifted(l, mid) ==
    IF mid > Len(l.original_offsets) THEN Panic("mid > len")
    ELSE
    LET left_offsets == Range(l.original_offsets, 0, mid)
        right_offsets == Range(l.original_offsets, mid, Len(l.original_offsets))
        stored_offset == as_usize(right_offsets[1])
        left_len == IF right_offsets = <<>> THEN l.total_len ELSE stored_offset
        right_len == IF right_offsets = <<>> THEN 0
                     ELSE usize_sub(l.total_len, stored_offset)
    IN  Ok(<<OffsetSublists(left_offsets, left_len),
             OffsetSublists(right_offsets, right_len)>>)

OffsetSublists_split_at(l, mid) ==
    IF mid > Len(l.original_offsets) THEN Panic("mid > len")
    ELSE
    LET left_offsets == Range(l.original_offsets, 0, mid)
        right_offsets == Range(l.original_offsets, mid, Len(l.original_offsets))
        relative_offset == usize_sub(as_usize(right_offsets[1]), offset_shift(l))
        left_len == IF right_offsets = <<>> THEN l.total_len ELSE relative_offset
        right_len == IF right_offsets = <<>> THEN 0
                     ELSE usize_sub(l.total_len, relative_offset)
    IN  Ok(<<OffsetSublists(left_offsets, left_len),
             OffsetSublists(right_offsets, right_len)>>)

(* Dispatch of the Slice methods on the slice types that hold no other    *)
(* slice: &[T], Bitmap and OffsetSublists                                  *)

IsFlat(s) == s.kind \in {"flat", "lens", "option_lens"}

Plain_is_consistent(s) ==
    CASE IsFlat(s) -> Flat_is_consistent(s)
      [] s.kind = "bitmap" -> Bitmap_is_consistent(s)
      [] s.kind = "offsets" -> OffsetSublists_is_consistent(s)

Plain_len(s) ==
    CASE IsFlat(s) -> Flat_len(s)
      [] s.kind = "bitmap" -> Bitmap_len(s)
      [] s.kind = "offsets" -> OffsetSublists_len(s)

Plain_get_cloned_unchecked(s, index) ==
    CASE IsFlat(s) -> Ok(Flat_get_cloned_unchecked(s, index))
      [] s.kind = "bitmap" -> Ok(Bitmap_get_cloned_unchecked(s, index))
      [] s.kind = "offsets" -> Ok(OffsetSublists_get_cloned_unchecked(s, index))

Plain_iter_cloned(s) ==
    CASE IsFlat(s) -> Ok(Flat_iter_cloned(s))
      [] s.kind = "bitmap" -> Ok(Bitmap_iter_cloned(s))
      [] s.kind = "offsets" -> Ok(OffsetSublists_iter_cloned(s))

Plain_split_at(s, mid) ==
    CASE IsFlat(s) -> Flat_split_at(s, mid)
      [] s.kind = "bitmap" -> Bitmap_split_at(s, mid)
      [] s.kind = "offsets" -> OffsetSublists_split_at(s, mid)

(* impl Slice for OptionSlice *)

OptionSlice(values, is_valid) ==
    [kind |-> "option", values |-> values, is_valid |-> is_valid]

OptionSlice_is_consistent(s) ==
    /\ Plain_is_consistent(s.values)
    /\ Plain_is_consistent(s.is_valid)
    /\ Plain_len(s.values) = Plain_len(s.is_valid)

OptionSlice_len(s) == Plain_len(s.is_valid)

\* get_cloned_unchecked that yields the value whatever its validity
OptionSlice_get_cloned_unchecked_ignoring_validity(s, index) ==
    LET is_valid == Plain_get_cloned_unchecked(s.is_valid, index)
        value == Plain_get_cloned_unchecked(s.values, index)
    IN  IF ~is_valid.ok THEN is_valid
        ELSE IF ~value.ok THEN value
        ELSE Ok(Some(value.val))

OptionSlice_get_cloned_unchecked(s, index) ==
    LET is_valid == Plain_get_cloned_unchecked(s.is_valid, index)
        value == Plain_get_cloned_unchecked(s.values, index)
    IN  IF ~is_valid.ok THEN is_valid
        ELSE IF ~value.ok THEN value
        ELSE Ok(then_some(is_valid.val, value.val))

OptionSlice_iter_cloned(s) ==
    LET values == Plain_iter_cloned(s.values)
        is_valid == Plain_iter_cloned(s.is_valid)
    IN  IF ~values.ok THEN values
        ELSE IF ~is_valid.ok THEN is_valid
        ELSE Ok([i \in 1 .. Min(Len(values.val), Len(is_valid.val)) |->
                    then_some(is_valid.val[i], values.val[i])])

\* split_at that splits the validity one element further than the values
OptionSlice_split_at_validity_shifted(s, mid) ==
    LET values == Plain_split_at(s.values, mid)
        valid == Plain_split_at(s.is_valid, Min(mid + 1, Plain_len(s.is_valid)))
    IN  IF ~values.ok THEN values
        ELSE IF ~valid.ok THEN valid
        ELSE Ok(<<OptionSlice(values.val[1], valid.val[1]),
                  OptionSlice(values.val[2], valid.val[2])>>)

OptionSlice_split_at(s, mid) ==
    LET values == Plain_split_at(s.values, mid)
        valid == Plain_split_at(s.is_valid, mid)
    IN  IF ~values.ok THEN values
        ELSE IF ~valid.ok THEN valid
        ELSE Ok(<<OptionSlice(values.val[1], valid.val[1]),
                  OptionSlice(values.val[2], valid.val[2])>>)

(* trait SublistSlice and its four implementations *)

\* <&[usize] as SublistSlice>::last_sublist
Lens_last_sublist(l) ==
    IF l.data = <<>> THEN None
    ELSE Some(ValidSublist(SumLens(Range(l.data, 0, Len(l.data) - 1)),
                           l.data[Len(l.data)]))

\* <&[usize] as SublistSlice>::get_sublist_unchecked
Lens_get_sublist_unchecked(l, index) ==
    ValidSublist(SumLens(Range(l.data, 0, index)), l.data[index + 1])

\* <&[usize] as SublistSlice>::iter_sublists
Lens_iter_sublists(l) ==
    [i \in 1 .. Len(l.data) |->
        ValidSublist(SumLens(Range(l.data, 0, i - 1)), l.data[i])]

\* <&[Option<usize>] as SublistSlice>::last_sublist
OptionLens_last_sublist(l) ==
    IF l.data = <<>> THEN None
    ELSE Some(from_option_len(SumOptionLens(Range(l.data, 0, Len(l.data) - 1)),
                              l.data[Len(l.data)]))

\* <&[Option<usize>] as SublistSlice>::get_sublist_unchecked
OptionLens_get_sublist_unchecked(l, index) ==
    from_option_len(SumOptionLens(Range(l.data, 0, index)), l.data[index + 1])

\* <&[Option<usize>] as SublistSlice>::iter_sublists
OptionLens_iter_sublists(l) ==
    [i \in 1 .. Len(l.data) |->
        from_option_len(SumOptionLens(Range(l.data, 0, i - 1)), l.data[i])]

\* <OffsetSublists as SublistSlice>::last_sublist: self.last_cloned()
OffsetSublists_last_sublist(l) ==
    IF OffsetSublists_len(l) = 0 THEN None
    ELSE IF OffsetSublists_is_consistent(l)
    THEN Some(OffsetSublists_get_cloned_unchecked(l, OffsetSublists_len(l) - 1))
    ELSE None

\* <OptionOffsetSublists as SublistSlice>::last_sublist
OptionOffsetSublists_last_sublist(l) ==
    LET sublist == OffsetSublists_last_sublist(l.values)
        is_valid == IF Bitmap_len(l.is_valid) = 0 THEN None
                    ELSE Bitmap_get_cloned(l.is_valid, Bitmap_len(l.is_valid) - 1)
    IN  IF ~IsSome(sublist) THEN None
        ELSE IF ~IsSome(is_valid) THEN None
        ELSE Some(OptionSublist(Unwrap(sublist), Unwrap(is_valid)))

\* <OptionOffsetSublists as SublistSlice>::get_sublist_unchecked
OptionOffsetSublists_get_sublist_unchecked(l, index) ==
    OptionSublist(OffsetSublists_get_cloned_unchecked(l.values, index),
                  Bitmap_get_cloned_unchecked(l.is_valid, index))

\* <OptionOffsetSublists as SublistSlice>::iter_sublists
OptionOffsetSublists_iter_sublists(l) ==
    LET sublists == OffsetSublists_iter_cloned(l.values)
        is_valid == Bitmap_iter_cloned(l.is_valid)
    IN  [i \in 1 .. Min(Len(sublists), Len(is_valid)) |->
            OptionSublist(sublists[i], is_valid[i])]

\* SublistSlice::last_sublist
last_sublist(l) ==
    CASE l.kind = "lens" -> Lens_last_sublist(l)
      [] l.kind = "option_lens" -> OptionLens_last_sublist(l)
      [] l.kind = "offsets" -> OffsetSublists_last_sublist(l)
      [] l.kind = "option" -> OptionOffsetSublists_last_sublist(l)

\* SublistSlice::get_sublist_unchecked
get_sublist_unchecked(l, index) ==
    CASE l.kind = "lens" -> Lens_get_sublist_unchecked(l, index)
      [] l.kind = "option_lens" -> OptionLens_get_sublist_unchecked(l, index)
      [] l.kind = "offsets" -> OffsetSublists_get_cloned_unchecked(l, index)
      [] l.kind = "option" -> OptionOffsetSublists_get_sublist_unchecked(l, index)

\* SublistSlice::iter_sublists
iter_sublists(l) ==
    CASE l.kind = "lens" -> Lens_iter_sublists(l)
      [] l.kind = "option_lens" -> OptionLens_iter_sublists(l)
      [] l.kind = "offsets" -> OffsetSublists_iter_cloned(l)
      [] l.kind = "option" -> OptionOffsetSublists_iter_sublists(l)

(* Dispatch of the Slice methods on the types of the fields of a          *)
(* ListSlice: an OptionSlice or a slice that holds no other slice          *)

Inner_is_consistent(s) ==
    IF s.kind = "option" THEN OptionSlice_is_consistent(s)
    ELSE Plain_is_consistent(s)

Inner_len(s) ==
    IF s.kind = "option" THEN OptionSlice_len(s) ELSE Plain_len(s)

Inner_split_at(s, mid) ==
    IF s.kind = "option" THEN OptionSlice_split_at(s, mid)
    ELSE Plain_split_at(s, mid)

\* SublistSlice::sublist_at
sublist_at(l, index) ==
    IF ~(Inner_is_consistent(l) /\ index < Inner_len(l))
    THEN Panic("assertion failed: self.is_consistent() && index < self.len()")
    ELSE Ok(get_sublist_unchecked(l, index))

(* impl Slice for ListSlice *)

ListSlice(items, lists) == [kind |-> "list", items |-> items, lists |-> lists]

ListSlice_is_consistent(s) ==
    /\ Inner_is_consistent(s.items)
    /\ Inner_is_consistent(s.lists)
    /\ Inner_len(s.items) =
          (LET last == last_sublist(s.lists) IN
           IF IsSome(last)
           THEN usize_add(Sublist_offset(Unwrap(last)), Sublist_len(Unwrap(last)))
           ELSE 0)

ListSlice_len(s) == Inner_len(s.lists)

ListSlice_get_cloned_unchecked(s, index) ==
    LET sublist == get_sublist_unchecked(s.lists, index)
        before_start == Inner_split_at(s.items, Sublist_offset(sublist))
    IN  IF ~before_start.ok THEN before_start
        ELSE LET list_after == Inner_split_at(before_start.val[2], Sublist_len(sublist))
             IN  IF ~list_after.ok THEN list_after
                 ELSE Ok(apply_validity(sublist, list_after.val[1]))

RECURSIVE ListSlice_iter_from(_, _)
\* The closure of ListSlice::iter_cloned, applied to the sublists in order
ListSlice_iter_from(remaining, sublists) ==
    IF sublists = <<>> THEN Ok(<<>>)
    ELSE LET sublist == Head(sublists)
             current_next == Inner_split_at(remaining, Sublist_len(sublist))
         IN  IF ~current_next.ok THEN current_next
             ELSE LET rest == ListSlice_iter_from(current_next.val[2], Tail(sublists))
                  IN  IF ~rest.ok THEN rest
                      ELSE Ok(<<apply_validity(sublist, current_next.val[1])>>
                              \o rest.val)

ListSlice_iter_cloned(s) == ListSlice_iter_from(s.items, iter_sublists(s.lists))

\* split_at that splits the items at mid, as it splits the lists
ListSlice_split_at_items_at_mid(s, mid) ==
    LET mid_sublist == sublist_at(s.lists, mid) IN
    IF ~mid_sublist.ok THEN mid_sublist
    ELSE
    LET lists == Inner_split_at(s.lists, mid)
        items == Inner_split_at(s.items, Min(mid, Inner_len(s.items)))
    IN  IF ~lists.ok THEN lists
        ELSE IF ~items.ok THEN items
        ELSE Ok(<<ListSlice(items.val[1], lists.val[1]),
                  ListSlice(items.val[2], lists.val[2])>>)

ListSlice_split_at(s, mid) ==
    LET mid_sublist == sublist_at(s.lists, mid) IN
    IF ~mid_sublist.ok THEN mid_sublist
    ELSE
    LET mid_offset == Sublist_offset(mid_sublist.val)
        lists == Inner_split_at(s.lists, mid)
        items == Inner_split_at(s.items, mid_offset)
    IN  IF ~lists.ok THEN lists
        ELSE IF ~items.ok THEN items
        ELSE Ok(<<ListSlice(items.val[1], lists.val[1]),
                  ListSlice(items.val[2], lists.val[2])>>)

(* Dispatch of the Slice methods on the type of the slice *)

Slice_is_consistent(s) ==
    CASE s.kind = "list" -> ListSlice_is_consistent(s)
      [] s.kind = "option" -> OptionSlice_is_consistent(s)
      [] OTHER -> Plain_is_consistent(s)

Slice_len(s) ==
    CASE s.kind = "list" -> ListSlice_len(s)
      [] s.kind = "option" -> OptionSlice_len(s)
      [] OTHER -> Plain_len(s)

Slice_get_cloned_unchecked(s, index) ==
    CASE s.kind = "list" -> ListSlice_get_cloned_unchecked(s, index)
      [] s.kind = "option" -> OptionSlice_get_cloned_unchecked(s, index)
      [] OTHER -> Plain_get_cloned_unchecked(s, index)

Slice_iter_cloned(s) ==
    CASE s.kind = "list" -> ListSlice_iter_cloned(s)
      [] s.kind = "option" -> OptionSlice_iter_cloned(s)
      [] OTHER -> Plain_iter_cloned(s)

Slice_split_at(s, mid) ==
    CASE s.kind = "list" -> ListSlice_split_at(s, mid)
      [] s.kind = "option" -> OptionSlice_split_at(s, mid)
      [] OTHER -> Plain_split_at(s, mid)

(* The provided methods of trait Slice *)

\* Slice::is_empty
Slice_is_empty(s) == Slice_len(s) = 0

\* Slice::get_cloned
Slice_get_cloned(s, index) ==
    IF Slice_is_consistent(s) /\ index < Slice_len(s)
    THEN LET r == Slice_get_cloned_unchecked(s, index) IN
         IF r.ok THEN Ok(Some(r.val)) ELSE r
    ELSE Ok(None)

\* Slice::first_cloned
Slice_first_cloned(s) == Slice_get_cloned(s, 0)

\* last_cloned that reads one element past the last
Slice_last_cloned_at_len(s) == Slice_get_cloned(s, Slice_len(s))

\* Slice::last_cloned
Slice_last_cloned(s) ==
    IF Slice_len(s) = 0 THEN Ok(None) ELSE Slice_get_cloned(s, Slice_len(s) - 1)

\* Slice::at
Slice_at(s, index) ==
    LET r == Slice_get_cloned(s, index) IN
    IF ~r.ok THEN r
    ELSE IF IsSome(r.val) THEN Ok(Unwrap(r.val))
    ELSE Panic("index is out of bounds")

---------------------------------------------------------------------------
(* A caller of the Slice API of OptionSlice and ListSlice *)

\* Most sublists in a ListSlice
MaxLists == 3

\* Longest sublist of an input
MaxSubLen == 3

\* Most items in the items slice of a ListSlice
MaxItems == 5

\* Largest first offset of an OffsetSublists input
MaxShift == 1

\* Sequences over S of length 0 .. n
SeqsUpTo(S, n) == UNION {[1 .. k -> S] : k \in 0 .. n}

\* &[T] over n distinct items: 1, 2, ..., n
Items(n) == [kind |-> "flat", data |-> [i \in 1 .. n |-> i]]

\* &[T] over n distinct values: 10, 20, ..., 10 n
Values(n) == [kind |-> "flat", data |-> [i \in 1 .. n |-> 10 * i]]

\* Validity bitmaps as Arrow stores them
ValidityBitmaps == {Bitmap_new(bits_to_bitmap(v), Len(v)).val :
                        v \in SeqsUpTo(BOOLEAN, MaxLists)}

\* Largest step between two offsets of an OffsetSublists input
MaxStep == 2

\* Offset buffers: a first offset, then steps that go up, stay or go down
OffsetBuffers ==
    {o \in SeqsUpTo(0 .. MaxItems, MaxLists) :
        /\ o # <<>> => o[1] <= MaxShift
        /\ \A i \in 2 .. Len(o) : o[i] - o[i - 1] \in -1 .. MaxStep}

\* Item counts tried against a total of total_len items
ItemCounts(total_len) == {total_len - 1, total_len, total_len + 1} \cap 0 .. MaxItems

\* OptionSlice values: every pairing of a values slice with a validity slice,
\* of equal length or not
OptionSliceInputs ==
    {OptionSlice(Values(n), [kind |-> "flat", data |-> v]) :
        n \in 0 .. MaxLists + 1, v \in SeqsUpTo(BOOLEAN, MaxLists)}

OptionReadSliceInputs ==
    {OptionSlice(Values(n), b) : n \in 0 .. MaxLists + 1, b \in ValidityBitmaps}

\* ListWriteSlice values: items and explicit lengths, matching or not
ListWriteSliceInputs ==
    {ListSlice(Items(n), [kind |-> "lens", data |-> lens]) :
        n \in 0 .. MaxItems, lens \in SeqsUpTo(0 .. MaxSubLen, MaxLists)}

\* OptionListWriteSlice values
OptionListWriteSliceInputs ==
    {ListSlice(Items(n), [kind |-> "option_lens", data |-> lens]) :
        n \in 0 .. MaxItems,
        lens \in SeqsUpTo({None} \cup {Some(k) : k \in 0 .. MaxSubLen}, MaxLists)}

\* ListReadSlice values
ListReadSliceInputs ==
    {ListSlice(Items(n), OffsetSublists(o, total_len)) :
        <<n, o, total_len>> \in
            {t \in (0 .. MaxItems) \X OffsetBuffers \X (0 .. MaxItems) :
                t[1] \in ItemCounts(t[3])}}

\* OffsetSublists values, on their own
OffsetSublistsInputs ==
    {OffsetSublists(o, total_len) :
        o \in OffsetBuffers, total_len \in 0 .. MaxItems}

\* OptionListReadSlice values
OptionListReadSliceInputs ==
    {ListSlice(Items(t[1]), OptionSlice(OffsetSublists(t[2], t[3]), t[4])) :
        t \in {t \in (0 .. MaxItems) \X OffsetBuffers \X (0 .. MaxItems)
                        \X ValidityBitmaps :
                /\ t[1] \in ItemCounts(t[3])
                /\ Bitmap_len(t[4]) \in {Len(t[2]), Len(t[2]) - 1}}}

InitSlice ==
    /\ \/ slice \in {Some(s) : s \in OptionSliceInputs}
       \/ slice \in {Some(s) : s \in OptionReadSliceInputs}
       \/ slice \in {Some(s) : s \in ListWriteSliceInputs}
       \/ slice \in {Some(s) : s \in OptionListWriteSliceInputs}
       \/ slice \in {Some(s) : s \in ListReadSliceInputs}
       \/ slice \in {Some(s) : s \in OptionListReadSliceInputs}
       \/ slice \in {Some(s) : s \in OffsetSublistsInputs}
    /\ lres = NoOp
    /\ bits = <<>>
    /\ array_len = 0
    /\ bitmap = None
    /\ bres = NoOp
    /\ builder = None
    /\ xres = NoOp

\* The caller makes its next call on a slice it has just built or just got
\* from split_at
Holding == lres.op \in {"none", "split_at"}

\* slice.is_consistent(), which a caller owes before any other call
IsConsistent ==
    /\ Holding
    /\ lres' = [op |-> "is_consistent", self |-> Unwrap(slice),
                res |-> Slice_is_consistent(Unwrap(slice))]
    /\ UNCHANGED <<slice, bitmapVars, builderVars>>

\* slice.len(), slice.is_empty() and slice.iter_cloned() collected
SliceIter ==
    /\ Holding
    /\ Slice_is_consistent(Unwrap(slice))
    /\ lres' = [op |-> "iter", self |-> Unwrap(slice),
                res |-> [len |-> Slice_len(Unwrap(slice)),
                         is_empty |-> Slice_is_empty(Unwrap(slice)),
                         iter |-> Slice_iter_cloned(Unwrap(slice))]]
    /\ UNCHANGED <<slice, bitmapVars, builderVars>>

\* slice.get_cloned(index) and slice.at(index)
SliceGet(index) ==
    /\ Holding
    /\ Slice_is_consistent(Unwrap(slice))
    /\ lres' = [op |-> "get", self |-> Unwrap(slice), arg |-> index,
                res |-> [get |-> Slice_get_cloned(Unwrap(slice), index),
                         at |-> Slice_at(Unwrap(slice), index)]]
    /\ UNCHANGED <<slice, bitmapVars, builderVars>>

\* slice.split_at(mid); the caller goes on with one of the two halves
SliceSplitAt(mid, keep) ==
    /\ Holding
    /\ Slice_is_consistent(Unwrap(slice))
    /\ LET res == Slice_split_at(Unwrap(slice), mid) IN
       /\ lres' = [op |-> "split_at", self |-> Unwrap(slice), arg |-> mid,
                   res |-> res]
       /\ slice' = IF res.ok THEN Some(res.val[keep]) ELSE slice
    /\ UNCHANGED <<bitmapVars, builderVars>>

NextSlice ==
    \/ IsConsistent
    \/ SliceIter
    \/ \E index \in 0 .. MaxLists + 2 :
          /\ index <= Slice_len(Unwrap(slice)) + 1
          /\ SliceGet(index)
    \/ \E mid \in 0 .. MaxLists + 2, keep \in {1, 2} :
          /\ mid <= Slice_len(Unwrap(slice)) + 1
          /\ SliceSplitAt(mid, keep)

SpecSlice == InitSlice /\ [][NextSlice]_vars

\* slice.get_cloned(index), slice.at(index), slice.first_cloned(),
\* slice.last_cloned() and slice.is_empty() on a slice just built
SliceAccess(index) ==
    /\ lres.op = "none"
    /\ Slice_is_consistent(Unwrap(slice))
    /\ lres' = [op |-> "access", self |-> Unwrap(slice), arg |-> index,
                res |-> [get |-> Slice_get_cloned(Unwrap(slice), index),
                         at |-> Slice_at(Unwrap(slice), index),
                         first |-> Slice_first_cloned(Unwrap(slice)),
                         last |-> Slice_last_cloned(Unwrap(slice)),
                         is_empty |-> Slice_is_empty(Unwrap(slice))]]
    /\ UNCHANGED <<slice, bitmapVars, builderVars>>

NextAccess ==
    \E index \in 0 .. MaxLists + 2 :
        /\ index <= Slice_len(Unwrap(slice)) + 1
        /\ SliceAccess(index)

SpecAccess == InitSlice /\ [][NextAccess]_vars

---------------------------------------------------------------------------
(* OptionSlice and ListSlice properties *)

\* The validity flags of an OptionSlice, unpacked
ValidityFlags(is_valid) ==
    IF is_valid.kind = "bitmap" THEN Bitmap_iter_cloned(is_valid) ELSE is_valid.data

\* What &[Option<T>] would hold for the values and flags of an OptionSlice
OptionElements(s) ==
    [i \in 1 .. Len(ValidityFlags(s.is_valid)) |->
        IF ValidityFlags(s.is_valid)[i] THEN Some(s.values.data[i]) ELSE None]

RECURSIVE TotalLen(_)
\* The sum of a sequence of lengths, as a natural number
TotalLen(lens) == IF lens = <<>> THEN 0 ELSE Head(lens) + TotalLen(Tail(lens))

\* The sublists of a ListSlice may be null
HasOptionalSublists(s) == s.lists.kind \in {"option_lens", "option"}

\* The length of every sublist that lists describes, 0 for a null sublist
SublistLens(lists) ==
    [i \in 1 .. Len(iter_sublists(lists)) |->
        LET sublist == iter_sublists(lists)[i] IN
        IF IsOptionSublist(sublist) /\ ~sublist.is_valid THEN 0
        ELSE Sublist_len(sublist)]

\* C7 as claimed: a ListSlice is consistent iff items is, lists is, and
\* items.len() is the sum of the lengths of the sublists that lists
\* describes, a null sublist counting for 0, in all four encodings.
C7_ListSliceSumLaw ==
    (lres.op = "is_consistent" /\ lres.self.kind = "list") =>
        (lres.res <=>
            /\ Slice_is_consistent(lres.self.items)
            /\ Slice_is_consistent(lres.self.lists)
            /\ Slice_len(lres.self.items) = TotalLen(SublistLens(lres.self.lists)))

\* The sum law on the encodings other than OptionOffsetSublists
SumLawExceptOptionOffsets ==
    (lres.op = "is_consistent" /\ lres.self.kind = "list"
        /\ lres.self.lists.kind # "option") =>
        (lres.res <=>
            /\ Slice_is_consistent(lres.self.items)
            /\ Slice_is_consistent(lres.self.lists)
            /\ Slice_len(lres.self.items) = TotalLen(SublistLens(lres.self.lists)))

RECURSIVE ConcatSublists(_, _)
\* The items of the sublists that iteration yielded, in order; a None
\* sublist has none
ConcatSublists(elements, optional) ==
    IF elements = <<>> THEN <<>>
    ELSE LET first == Head(elements)
             data == IF ~optional THEN first.data
                     ELSE IF IsSome(first) THEN Unwrap(first).data
                     ELSE <<>>
         IN  data \o ConcatSublists(Tail(elements), optional)

\* C8 as claimed: iterating a consistent ListSlice and concatenating the
\* items of the sublists it yields gives back items.
C8_ListSliceConcatenationLaw ==
    (lres.op = "iter" /\ lres.self.kind = "list") =>
        /\ lres.res.iter.ok
        /\ ConcatSublists(lres.res.iter.val, HasOptionalSublists(lres.self))
           = lres.self.items.data

\* The concatenation law on the encodings other than OptionOffsetSublists
ConcatenationExceptOptionOffsets ==
    (lres.op = "iter" /\ lres.self.kind = "list" /\ lres.self.lists.kind # "option") =>
        /\ lres.res.iter.ok
        /\ ConcatSublists(lres.res.iter.val, HasOptionalSublists(lres.self))
           = lres.self.items.data

\* C9 as claimed: split_at(mid) on a consistent ListSlice returns, for every
\* mid <= len(), two ListSlices that hold the sublists before mid and from
\* mid on, and panics only for mid > len().
C9_ListSliceSplitContract ==
    (lres.op = "split_at" /\ lres.self.kind = "list") =>
        LET s == lres.self
            mid == lres.arg
            all == Slice_iter_cloned(s).val
        IN  IF mid <= Slice_len(s)
            THEN /\ lres.res.ok
                 /\ Slice_len(lres.res.val[1]) = mid
                 /\ Slice_len(lres.res.val[2]) = Slice_len(s) - mid
                 /\ Slice_iter_cloned(lres.res.val[1]) = Ok(Range(all, 0, mid))
                 /\ Slice_iter_cloned(lres.res.val[2]) = Ok(Range(all, mid, Len(all)))
                 /\ Slice_len(lres.res.val[1].items)
                    = TotalLen(Range(SublistLens(s.lists), 0, mid))
            ELSE ~lres.res.ok

\* The split contract for the split points below len()
SplitContractBelowLen ==
    (lres.op = "split_at" /\ lres.self.kind = "list"
        /\ lres.self.lists.kind # "option") =>
        LET s == lres.self
            mid == lres.arg
            all == Slice_iter_cloned(s).val
        IN  IF mid < Slice_len(s)
            THEN /\ lres.res.ok
                 /\ Slice_len(lres.res.val[1]) = mid
                 /\ Slice_len(lres.res.val[2]) = Slice_len(s) - mid
                 /\ Slice_iter_cloned(lres.res.val[1]) = Ok(Range(all, 0, mid))
                 /\ Slice_iter_cloned(lres.res.val[2]) = Ok(Range(all, mid, Len(all)))
                 /\ Slice_len(lres.res.val[1].items)
                    = TotalLen(Range(SublistLens(s.lists), 0, mid))
            ELSE ~lres.res.ok

---------------------------------------------------------------------------
(* builder/backend/primitive.rs, builder/backend/list.rs                   *)
(*                                                                         *)
(* A PrimitiveBuilder is [values, validity]; a GenericListBuilder is       *)
(* [items, offsets, nulls] where items is the builder of the items,        *)
(* offsets is Arrow's offset buffer (one more entry than there are lists)  *)
(* and nulls has one validity flag per list.                               *)

\* Result<(), ArrowError>
RustOk == [tag |-> "Ok"]
InvalidArgumentError(msg) ==
    [tag |-> "Err", error |-> "InvalidArgumentError", msg |-> msg]

\* <PrimitiveBuilder as TypedBackend<T>>::new: no element, and no null
\* buffer allocated
PrimitiveBuilder_new ==
    [values |-> <<>>, validity |-> <<>>, null_buffer |-> FALSE]

\* <PrimitiveBuilder as TypedBackend<T>>::extend_from_slice: append_slice
PrimitiveBuilder_extend_from_slice(b, s) ==
    [b EXCEPT !.values = @ \o s.data,
              !.validity = @ \o [i \in 1 .. Len(s.data) |-> TRUE]]

\* <GenericListBuilder as TypedBackend<List>>::new
GenericListBuilder_new ==
    [items |-> PrimitiveBuilder_new, offsets |-> <<0>>, nulls |-> <<>>]

\* GenericListBuilder::append, as called by push
GenericListBuilder_append(b, is_valid) ==
    [b EXCEPT !.offsets = Append(@, Len(b.items.values)),
              !.nulls = Append(@, is_valid)]

\* <GenericListBuilder as TypedBackend<List>>::push
List_push(b, s) ==
    GenericListBuilder_append(
        [b EXCEPT !.items = PrimitiveBuilder_extend_from_slice(@, s)], TRUE)

\* <GenericListBuilder as TypedBackend<Option<List>>>::push
OptionList_push(b, s) ==
    IF IsSome(s)
    THEN GenericListBuilder_append(
            [b EXCEPT !.items = PrimitiveBuilder_extend_from_slice(@, Unwrap(s))],
            TRUE)
    ELSE GenericListBuilder_append(b, FALSE)

RECURSIVE List_extend_loop(_, _, _)
\* for sublist in s.iter_cloned() { push(self, sublist) }: the iterator
\* splits the next sublist off the remaining items, and push appends it; a
\* panic of the iterator leaves the sublists pushed so far in the builder
List_extend_loop(b, remaining, sublists) ==
    IF sublists = <<>> THEN [builder |-> b, res |-> RustOk]
    ELSE LET sublist == Head(sublists)
             current_next == Slice_split_at(remaining, Sublist_len(sublist))
         IN  IF ~current_next.ok THEN [builder |-> b, res |-> current_next]
             ELSE List_extend_loop(
                      List_push(b, apply_validity(sublist, current_next.val[1])),
                      current_next.val[2], Tail(sublists))

RECURSIVE OptionList_extend_loop(_, _, _)
\* for sublist in s.iter_cloned() { push(self, sublist) }
OptionList_extend_loop(b, remaining, sublists) ==
    IF sublists = <<>> THEN [builder |-> b, res |-> RustOk]
    ELSE LET sublist == Head(sublists)
             current_next == Slice_split_at(remaining, Sublist_len(sublist))
         IN  IF ~current_next.ok THEN [builder |-> b, res |-> current_next]
             ELSE OptionList_extend_loop(
                      OptionList_push(b, apply_validity(sublist, current_next.val[1])),
                      current_next.val[2], Tail(sublists))

\* <GenericListBuilder as TypedBackend<List>>::extend_from_slice without the
\* is_consistent() check
List_extend_from_slice_unchecked(b, s) ==
    List_extend_loop(b, s.items, iter_sublists(s.lists))

\* <GenericListBuilder as TypedBackend<List>>::extend_from_slice; returns the
\* builder as the call leaves it and the call's result: Ok(()), Err(_) or a
\* panic
List_extend_from_slice(b, s) ==
    IF ~Slice_is_consistent(s)
    THEN [builder |-> b,
          res |-> InvalidArgumentError(
                      "sum of sublist lengths should equate value buffer length")]
    ELSE List_extend_loop(b, s.items, iter_sublists(s.lists))

\* <GenericListBuilder as TypedBackend<Option<List>>>::extend_from_slice
OptionList_extend_from_slice(b, s) ==
    IF ~Slice_is_consistent(s)
    THEN [builder |-> b,
          res |-> InvalidArgumentError(
                      "sum of sublist lengths should equate value buffer length")]
    ELSE OptionList_extend_loop(b, s.items, iter_sublists(s.lists))

\* ArrayBuilder::len of the list builder
ListCount(b) == Len(b.nulls)

\* ArrayBuilder::len of the items builder
ItemCount(b) == Len(b.items.values)

---------------------------------------------------------------------------
(* A caller of a list builder *)

\* Most sublists in a slice given to extend_from_slice
MaxExtendLists == 2

\* Most items in a slice given to push or extend_from_slice
MaxExtendItems == 2

\* The caller stops appending once the builder holds this many lists
MaxBuilderLists == 2

\* The sublist lengths that the caller passes: the small ones and usize::MAX
ExtendLens == 0 .. MaxExtendItems \cup {UsizeMax}

ExtendSlices ==
    {ListSlice(Items(n), [kind |-> "lens", data |-> lens]) :
        n \in 0 .. MaxExtendItems,
        lens \in SeqsUpTo(ExtendLens, MaxExtendLists)}

OptionExtendSlices ==
    {ListSlice(Items(n), [kind |-> "option_lens", data |-> lens]) :
        n \in 0 .. MaxExtendItems,
        lens \in SeqsUpTo({None} \cup {Some(k) : k \in ExtendLens},
                          MaxExtendLists)}

InitBuilder ==
    /\ builder = Some(GenericListBuilder_new)
    /\ xres = NoOp
    /\ bits = <<>>
    /\ array_len = 0
    /\ bitmap = None
    /\ bres = NoOp
    /\ slice = None
    /\ lres = NoOp

\* TypedBuilder<List<Item>>::push(s)
Push(s) ==
    /\ ListCount(Unwrap(builder)) < MaxBuilderLists
    /\ builder' = Some(List_push(Unwrap(builder), s))
    /\ xres' = [op |-> "push", arg |-> Some(s), before |-> Unwrap(builder)]
    /\ UNCHANGED <<bitmapVars, listVars>>

\* TypedBuilder<Option<List<Item>>>::push(s)
PushOption(s) ==
    /\ ListCount(Unwrap(builder)) < MaxBuilderLists
    /\ builder' = Some(OptionList_push(Unwrap(builder), s))
    /\ xres' = [op |-> "push", arg |-> s, before |-> Unwrap(builder)]
    /\ UNCHANGED <<bitmapVars, listVars>>

\* TypedBuilder<List<Item>>::extend_from_slice(s)
ExtendFromSlice(s) ==
    /\ ListCount(Unwrap(builder)) < MaxBuilderLists
    /\ LET call == List_extend_from_slice(Unwrap(builder), s) IN
       /\ builder' = Some(call.builder)
       /\ xres' = [op |-> "extend_from_slice", arg |-> s,
                   before |-> Unwrap(builder), res |-> call.res]
    /\ UNCHANGED <<bitmapVars, listVars>>

\* TypedBuilder<Option<List<Item>>>::extend_from_slice(s)
ExtendFromOptionSlice(s) ==
    /\ ListCount(Unwrap(builder)) < MaxBuilderLists
    /\ LET call == OptionList_extend_from_slice(Unwrap(builder), s) IN
       /\ builder' = Some(call.builder)
       /\ xres' = [op |-> "extend_from_slice", arg |-> s,
                   before |-> Unwrap(builder), res |-> call.res]
    /\ UNCHANGED <<bitmapVars, listVars>>

NextBuilder ==
    \/ \E n \in 0 .. MaxExtendItems : Push(Items(n))
    \/ \E n \in 0 .. MaxExtendItems : PushOption(Some(Items(n)))
    \/ PushOption(None)
    \/ \E s \in ExtendSlices : ExtendFromSlice(s)
    \/ \E s \in OptionExtendSlices : ExtendFromOptionSlice(s)

SpecBuilder == InitBuilder /\ [][NextBuilder]_vars

---------------------------------------------------------------------------
(* List builder properties *)

\* The j-th list of a list builder: None if null, else its items
BuilderList(b, j) ==
    IF b.nulls[j]
    THEN Some(Range(b.items.values, b.offsets[j], b.offsets[j + 1]))
    ELSE None

\* The i-th sublist that a ListWriteSlice or OptionListWriteSlice describes:
\* None for a None length, else the items after those of the sublists before
WrittenList(s, i) ==
    LET lens == SublistLens(s.lists)
        start == TotalLen(Range(lens, 0, i - 1))
    IN  IF s.lists.kind = "option_lens" /\ ~IsSome(s.lists.data[i]) THEN None
        ELSE Some(Range(s.items.data, start, start + lens[i]))

\* C10: extend_from_slice on a list builder, of List or of Option<List>,
\* with a slice whose sublist lengths do not sum to items.len() returns
\* Err(InvalidArgumentError("sum of sublist lengths should equate value
\* buffer length")) and appends nothing; with a consistent slice it returns
\* Ok and appends the s.len() sublists of the slice in order.
C10_ExtendFromSliceValidates ==
    xres.op = "extend_from_slice" =>
        LET s == xres.arg
            b == Unwrap(builder)
            n == ListCount(xres.before)
        IN  IF TotalLen(SublistLens(s.lists)) # Len(s.items.data)
            THEN /\ xres.res = InvalidArgumentError(
                        "sum of sublist lengths should equate value buffer length")
                 /\ b = xres.before
                 /\ ListCount(b) = n
                 /\ ItemCount(b) = ItemCount(xres.before)
            ELSE /\ xres.res = RustOk
                 /\ ListCount(b) = n + Len(s.lists.data)
                 /\ ItemCount(b) = ItemCount(xres.before) + Len(s.items.data)
                 /\ \A j \in 1 .. n : BuilderList(b, j) = BuilderList(xres.before, j)
                 /\ \A i \in 1 .. Len(s.lists.data) :
                        BuilderList(b, n + i) = WrittenList(s, i)

\* extend_from_slice validates the slices whose sublist lengths sum to at
\* most usize::MAX
ExtendValidatesWithoutOverflow ==
    (xres.op = "extend_from_slice"
        /\ TotalLen(SublistLens(xres.arg.lists)) <= UsizeMax) =>
        C10_ExtendFromSliceValidates

\* A slice with too few items for its sublist lengths was refused by a
\* builder that already holds a list with items
ExtendRefused ==
    /\ xres.op = "extend_from_slice"
    /\ xres.res.tag = "Err"
    /\ ListCount(xres.before) > 0 /\ ItemCount(xres.before) > 0
    /\ TotalLen(SublistLens(xres.arg.lists)) > Len(xres.arg.items.data)

\* A slice with a null sublist and a non-empty one was appended
ExtendAppendedLists ==
    /\ xres.op = "extend_from_slice"
    /\ xres.res = RustOk
    /\ ListCount(xres.before) > 0
    /\ xres.arg.lists.kind = "option_lens"
    /\ Len(xres.arg.lists.data) = 2
    /\ ~IsSome(xres.arg.lists.data[1])
    /\ xres.arg.lists.data[2] = Some(2)

---------------------------------------------------------------------------
(* builder/backend/primitive.rs, builder/mod.rs: TypedBuilder<Option<T>>   *)
(* over a PrimitiveBuilder                                                 *)
(*                                                                         *)
(* The PrimitiveBuilder record keeps the value buffer, one validity flag   *)
(* per element, and whether the null buffer is allocated.  Arrow's builder *)
(* allocates it on the first append_null, on every append_nulls and on an  *)
(* append_values with a false flag, and validity_slice() is None until     *)
(* then.                                                                   *)

\* PrimitiveBuilder::append_option, as called by push: a null stores the
\* default value
PrimitiveBuilder_append_option(b, opt) ==
    IF IsSome(opt)
    THEN [b EXCEPT !.values = Append(@, Unwrap(opt)),
                   !.validity = Append(@, TRUE)]
    ELSE [values |-> Append(b.values, 0),
          validity |-> Append(b.validity, FALSE),
          null_buffer |-> TRUE]

\* PrimitiveBuilder::append_nulls, as called by extend_with_nulls
PrimitiveBuilder_append_nulls(b, n) ==
    [values |-> b.values \o [i \in 1 .. n |-> 0],
     validity |-> b.validity \o [i \in 1 .. n |-> FALSE],
     null_buffer |-> TRUE]

\* PrimitiveBuilder::append_values, as called by extend_from_slice: panics
\* before it appends anything when the lengths differ
PrimitiveBuilder_append_values(b, values, is_valid) ==
    IF Len(values) # Len(is_valid)
    THEN [builder |-> b, res |-> Panic("Value and validity lengths must be equal")]
    ELSE [builder |-> [values |-> b.values \o values,
                       validity |-> b.validity \o is_valid,
                       null_buffer |-> b.null_buffer
                                       \/ \E i \in 1 .. Len(is_valid) : ~is_valid[i]],
          res |-> Ok("()")]

\* <PrimitiveBuilder as TypedBackend<Option<T>>>::push
Option_push(b, v) == PrimitiveBuilder_append_option(b, v)

\* extend_from_slice that appends the values before the length check
Option_extend_from_slice_appending_first(b, s) ==
    LET call == PrimitiveBuilder_append_values(b, s.values.data,
                                               s.is_valid.data)
    IN  IF call.res.ok THEN [builder |-> call.builder, res |-> RustOk]
        ELSE [builder |-> [b EXCEPT !.values = @ \o s.values.data],
              res |-> InvalidArgumentError(
                          "value and validity lengths must be equal")]

\* <PrimitiveBuilder as TypedBackend<Option<T>>>::extend_from_slice:
\* catch_unwind around append_values, the panic mapped to an error
Option_extend_from_slice(b, s) ==
    LET call == PrimitiveBuilder_append_values(b, s.values.data,
                                               s.is_valid.data)
    IN  IF call.res.ok THEN [builder |-> call.builder, res |-> RustOk]
        ELSE [builder |-> call.builder,
              res |-> InvalidArgumentError(
                          "value and validity lengths must be equal")]

\* extend_with_nulls that appends a single null
Backend_extend_with_nulls_once(b, n) == PrimitiveBuilder_append_nulls(b, 1)

\* <PrimitiveBuilder as Backend>::extend_with_nulls
Backend_extend_with_nulls(b, n) == PrimitiveBuilder_append_nulls(b, n)

RECURSIVE TypedBuilder_extend(_, _)
\* <TypedBuilder as Extend>::extend: for item in iter { self.push(item) }
TypedBuilder_extend(b, items) ==
    IF items = <<>> THEN b
    ELSE TypedBuilder_extend(Option_push(b, Head(items)), Tail(items))

\* TypedBuilder::len: ArrayBuilder::len of the backend
TypedBuilder_len(b) == Len(b.values)

\* TypedBuilder::is_empty: ArrayBuilder::is_empty of the backend
TypedBuilder_is_empty(b) == TypedBuilder_len(b) = 0

\* PrimitiveBuilder::validity_slice: the packed null buffer, if allocated
PrimitiveBuilder_validity_slice(b) ==
    IF b.null_buffer THEN Some(bits_to_bitmap(b.validity)) ELSE None

\* validity_slice that sizes the Bitmap by the bytes of the null buffer
TypedBuilder_validity_slice_whole_bytes(b) ==
    LET raw == PrimitiveBuilder_validity_slice(b) IN
    IF ~IsSome(raw) THEN Ok(None)
    ELSE LET made == Bitmap_new(Unwrap(raw), Len(Unwrap(raw)) * 8) IN
         IF made.ok THEN Ok(Some(made.val)) ELSE made

\* TypedBuilder::validity_slice
TypedBuilder_validity_slice(b) ==
    LET raw == PrimitiveBuilder_validity_slice(b) IN
    IF ~IsSome(raw) THEN Ok(None)
    ELSE LET made == Bitmap_new(Unwrap(raw), TypedBuilder_len(b)) IN
         IF made.ok THEN Ok(Some(made.val)) ELSE made

---------------------------------------------------------------------------
(* A caller of a TypedBuilder<Option<T>>, who keeps count of the elements  *)
(* and of the validity flags it has appended                               *)

\* Longest slice or iterator given to the builder, most nulls at once
MaxOptionLen == 2

\* The caller stops appending once the builder holds this many elements
MaxOptionBuilderLen == 3

\* OptionWriteSlice values: values and flags of equal length or not
OptionWriteSlices ==
    {OptionSlice(Values(n), [kind |-> "flat", data |-> v]) :
        n \in 0 .. MaxOptionLen, v \in SeqsUpTo(BOOLEAN, MaxOptionLen)}

\* Optional values
OptionValues == {None, Some(10)}

InitOption ==
    /\ builder = Some(PrimitiveBuilder_new)
    /\ xres = [op |-> "new", count |-> 0, flags |-> <<>>]
    /\ bits = <<>>
    /\ array_len = 0
    /\ bitmap = None
    /\ bres = NoOp
    /\ slice = None
    /\ lres = NoOp

\* The builder accepts more elements
OptionBuilderOpen == TypedBuilder_len(Unwrap(builder)) < MaxOptionBuilderLen

\* builder.push(v)
OptionPush(v) ==
    /\ OptionBuilderOpen
    /\ builder' = Some(Option_push(Unwrap(builder), v))
    /\ xres' = [op |-> "push", arg |-> v, before |-> Unwrap(builder),
                count |-> xres.count + 1,
                flags |-> Append(xres.flags, IsSome(v))]
    /\ UNCHANGED <<bitmapVars, listVars>>

\* builder.extend(items)
OptionExtend(items) ==
    /\ OptionBuilderOpen
    /\ builder' = Some(TypedBuilder_extend(Unwrap(builder), items))
    /\ xres' = [op |-> "extend", arg |-> items, before |-> Unwrap(builder),
                count |-> xres.count + Len(items),
                flags |-> xres.flags \o [i \in 1 .. Len(items) |-> IsSome(items[i])]]
    /\ UNCHANGED <<bitmapVars, listVars>>

\* builder.extend_from_slice(s)
OptionExtendFromSlice(s) ==
    /\ OptionBuilderOpen
    /\ LET call == Option_extend_from_slice(Unwrap(builder), s)
           done == call.res = RustOk
       IN  /\ builder' = Some(call.builder)
           /\ xres' = [op |-> "extend_from_slice", arg |-> s,
                       before |-> Unwrap(builder), res |-> call.res,
                       count |-> xres.count + (IF done THEN Len(s.values.data) ELSE 0),
                       flags |-> xres.flags \o (IF done THEN s.is_valid.data ELSE <<>>)]
    /\ UNCHANGED <<bitmapVars, listVars>>

\* builder.extend_from_value_slice(vs)
OptionExtendFromValueSlice(vs) ==
    /\ OptionBuilderOpen
    /\ builder' = Some(PrimitiveBuilder_extend_from_slice(Unwrap(builder), vs))
    /\ xres' = [op |-> "extend_from_value_slice", arg |-> vs,
                before |-> Unwrap(builder),
                count |-> xres.count + Len(vs.data),
                flags |-> xres.flags \o [i \in 1 .. Len(vs.data) |-> TRUE]]
    /\ UNCHANGED <<bitmapVars, listVars>>

\* builder.extend_with_nulls(n)
OptionExtendWithNulls(n) ==
    /\ OptionBuilderOpen
    /\ builder' = Some(Backend_extend_with_nulls(Unwrap(builder), n))
    /\ xres' = [op |-> "extend_with_nulls", arg |-> n, before |-> Unwrap(builder),
                count |-> xres.count + n,
                flags |-> xres.flags \o [i \in 1 .. n |-> FALSE]]
    /\ UNCHANGED <<bitmapVars, listVars>>

NextOption ==
    \/ \E v \in OptionValues : OptionPush(v)
    \/ \E items \in SeqsUpTo(OptionValues, MaxOptionLen) : OptionExtend(items)
    \/ \E s \in OptionWriteSlices : OptionExtendFromSlice(s)
    \/ \E n \in 0 .. MaxOptionLen : OptionExtendFromValueSlice(Values(n))
    \/ \E n \in 0 .. MaxOptionLen : OptionExtendWithNulls(n)

SpecOption == InitOption /\ [][NextOption]_vars

---------------------------------------------------------------------------
(* TypedBuilder<Option<T>> properties *)

\* What tests::check_validity accepts: the validity slice holds the
\* expected flags, or there is none and every expected flag is true
CheckValidity(b, expected) ==
    LET v == TypedBuilder_validity_slice(b) IN
    /\ v.ok
    /\ IF IsSome(v.val) THEN Bitmap_iter_cloned(Unwrap(v.val)) = expected
       ELSE \A i \in 1 .. Len(expected) : expected[i]

\* C11: extend_from_slice(OptionSlice{values, is_valid}) on a
\* TypedBuilder<Option<T>> returns Err iff values.len() # is_valid.len(); on
\* Err the builder is unchanged (a new builder still has len() 0 and is
\* empty); on Ok len() grows by values.len() and the validity flags of the
\* new elements are is_valid.
C11_OptionExtendFromSliceValidates ==
    xres.op = "extend_from_slice" =>
        LET s == xres.arg
            b == Unwrap(builder)
            n == TypedBuilder_len(xres.before)
        IN  /\ xres.res.tag \in {"Ok", "Err"}
            /\ xres.res.tag = "Err" <=> Len(s.values.data) # Len(s.is_valid.data)
            /\ xres.res.tag = "Err" =>
                  /\ b = xres.before
                  /\ TypedBuilder_len(b) = n
                  /\ TypedBuilder_is_empty(b) = (n = 0)
            /\ xres.res.tag = "Ok" =>
                  /\ TypedBuilder_len(b) = n + Len(s.values.data)
                  /\ Range(b.values, n, TypedBuilder_len(b)) = s.values.data
                  /\ CheckValidity(b, xres.before.validity \o s.is_valid.data)

\* Two values with one flag were refused by a builder that holds elements
C11_Witness ==
    /\ xres.op = "extend_from_slice"
    /\ xres.res.tag = "Err"
    /\ Len(xres.arg.values.data) = 2 /\ Len(xres.arg.is_valid.data) = 1
    /\ TypedBuilder_len(Unwrap(builder)) > 0

\* C12: a new TypedBuilder has len() 0; after any sequence of push, extend,
\* extend_from_slice, extend_from_value_slice and extend_with_nulls, len() is
\* the number of elements appended so far, a refused extend_from_slice
\* counting for none, and is_empty() is len() = 0.
C12_LenCountsAppendedElements ==
    LET b == Unwrap(builder) IN
    /\ xres.op = "new" => TypedBuilder_len(b) = 0
    /\ TypedBuilder_len(b) = xres.count
    /\ TypedBuilder_is_empty(b) = (TypedBuilder_len(b) = 0)

\* Nulls were appended in bulk to a builder that already held elements
C12_Witness ==
    /\ xres.op = "extend_with_nulls"
    /\ xres.arg = 2
    /\ TypedBuilder_len(xres.before) > 0
    /\ TypedBuilder_len(Unwrap(builder)) = xres.count

\* C13: on a TypedBuilder<Option<T>>, validity_slice() is None, and then
\* every appended element was valid, or it is a Bitmap of length len() whose
\* i-th bit tells whether the i-th appended element is non-null: true for
\* push(Some) and extend_from_value_slice, false for push(None) and
\* extend_with_nulls, the supplied is_valid for extend_from_slice.
C13_ValiditySliceTracksNulls ==
    LET b == Unwrap(builder)
        v == TypedBuilder_validity_slice(b)
    IN  /\ v.ok
        /\ IF IsSome(v.val)
           THEN /\ Bitmap_len(Unwrap(v.val)) = TypedBuilder_len(b)
                /\ Bitmap_iter_cloned(Unwrap(v.val)) = xres.flags
           ELSE \A i \in 1 .. Len(xres.flags) : xres.flags[i]

\* Valid and null elements were appended, the last ones by extend_from_slice
C13_Witness ==
    /\ xres.op = "extend_from_slice"
    /\ xres.res.tag = "Ok"
    /\ xres.arg.is_valid.data = <<FALSE, TRUE>>
    /\ TypedBuilder_len(xres.before) > 0
    /\ IsSome(TypedBuilder_validity_slice(Unwrap(builder)).val)
    /\ \E i \in 1 .. Len(xres.before.validity) : xres.before.validity[i]

---------------------------------------------------------------------------
(* Slice default methods *)

\* C14: on every consistent slice, get_cloned(i) is Some of
\* get_cloned_unchecked(i) exactly when i < len() and None otherwise; at(i)
\* returns that element for i < len() and panics for i >= len();
\* first_cloned() and last_cloned() are the elements at 0 and len() - 1, both
\* None on an empty slice; is_empty() is len() = 0.
C14_SliceDefaultAccessors ==
    lres.op = "access" =>
        LET s == lres.self
            i == lres.arg
            n == Slice_len(s)
        IN  /\ i < n =>
                 LET u == Slice_get_cloned_unchecked(s, i) IN
                 /\ u.ok
                 /\ lres.res.get = Ok(Some(u.val))
                 /\ lres.res.at = Ok(u.val)
            /\ i >= n =>
                 /\ lres.res.get = Ok(None)
                 /\ ~lres.res.at.ok
            /\ n = 0 => lres.res.first = Ok(None) /\ lres.res.last = Ok(None)
            /\ n > 0 =>
                 /\ lres.res.first = Ok(Some(Slice_get_cloned_unchecked(s, 0).val))
                 /\ lres.res.last = Ok(Some(Slice_get_cloned_unchecked(s, n - 1).val))
            /\ lres.res.is_empty = (n = 0)

\* An element other than the first and the last was read from a list slice
C14_Witness ==
    /\ lres.op = "access"
    /\ lres.self.kind = "list"
    /\ Slice_len(lres.self) = 3
    /\ lres.arg = 1
    /\ lres.res.get.ok /\ IsSome(lres.res.get.val)
    /\ lres.res.last # lres.res.get

\* An index past the end was read
C14_OutOfBounds ==
    /\ lres.op = "access"
    /\ lres.arg > Slice_len(lres.self)
    /\ Slice_len(lres.self) > 0
    /\ ~lres.res.at.ok

---------------------------------------------------------------------------
(* Bitmap comparison properties *)

\* The bools of a Slice<Element = bool>, read one index at a time
BoolsOf(s) ==
    IF s.kind = "bitmap"
    THEN [i \in 1 .. Bitmap_len(s) |-> Bitmap_get_cloned_unchecked(s, i - 1)]
    ELSE s.data

\* Sequence a comes before sequence b in lexicographic order, false < true
LexLess(a, b) ==
    \E k \in 0 .. Min(Len(a), Len(b)) :
        /\ \A i \in 1 .. k : a[i] = b[i]
        /\ \/ k = Len(a) /\ k < Len(b)
           \/ k < Len(a) /\ k < Len(b) /\ ~a[k + 1] /\ b[k + 1]

\* C15: a Bitmap equals another bool slice iff both hold the same bools in
\* the same order, whatever the raw bytes, header_len, trailer_len and unused
\* bits are; the ordering is the lexicographic one of the bools; the hasher
\* is fed len() and then each element, so that equal Bitmaps feed it the same
\* and slices of different lengths are never equal.
C15_BitmapComparesLogicalContent ==
    bres.op = "compare" =>
        LET a == BoolsOf(bres.self)
            b == BoolsOf(bres.arg)
            ordering == IF a = b THEN "Equal"
                        ELSE IF LexLess(a, b) THEN "Less" ELSE "Greater"
        IN  /\ bres.res.eq <=> a = b
            /\ Len(a) # Len(b) => ~bres.res.eq
            /\ bres.res.partial_cmp = Some(ordering)
            /\ bres.arg.kind = "bitmap" =>
                  /\ bres.res.cmp = Some(ordering)
                  /\ bres.res.eq => Unwrap(bres.res.other_hash) = bres.res.hash
            /\ bres.res.hash = <<Len(a)>> \o a

\* Two Bitmaps found equal differ in raw bytes, in header and in trailer
C15_Witness ==
    /\ bres.op = "compare"
    /\ bres.arg.kind = "bitmap"
    /\ bres.res.eq
    /\ Bitmap_len(bres.self) = 3
    /\ bres.self.raw # bres.arg.raw
    /\ bres.self.header_len # bres.arg.header_len
    /\ bres.self.trailer_len # bres.arg.trailer_len
    /\ Len(bres.self.raw) = 2
    /\ Unwrap(bres.res.other_hash) = bres.res.hash

---------------------------------------------------------------------------
(* OffsetSublists properties *)

\* C16: OffsetSublists::is_consistent() is true iff the offsets are empty
\* and total_len is 0, or the offsets are not empty, never decrease, and
\* last_offset - first_offset <= total_len.
C16_OffsetSublistsConsistency ==
    (lres.op = "is_consistent" /\ lres.self.kind = "offsets") =>
        LET o == lres.self.original_offsets
            n == Len(o)
        IN  lres.res <=>
               \/ n = 0 /\ lres.self.total_len = 0
               \/ /\ n > 0
                  /\ \A i, j \in 1 .. n : i <= j => o[i] <= o[j]
                  /\ o[n] - o[1] <= lres.self.total_len

\* Offsets that repeat and start above zero were found consistent
C16_Witness ==
    /\ lres.op = "is_consistent"
    /\ lres.self.kind = "offsets"
    /\ lres.res
    /\ Len(lres.self.original_offsets) = 3
    /\ lres.self.original_offsets[1] > 0
    /\ lres.self.original_offsets[2] = lres.self.original_offsets[3]

\* Offsets that decrease, or that span more than total_len, were refused
C16_Refused ==
    /\ lres.op = "is_consistent"
    /\ lres.self.kind = "offsets"
    /\ ~lres.res
    /\ Len(lres.self.original_offsets) = 2
    /\ lres.self.original_offsets[1] <= lres.self.original_offsets[2]

\* The sublist that the stored offsets of l describe at index: it starts at
\* stored_offset[index] - stored_offset[0] and ends where the next one
\* starts, the last one at total_len
DecodedSublist(l, index) ==
    LET o == l.original_offsets
        offset == o[index + 1] - o[1]
    IN  ValidSublist(offset,
                     IF index + 1 < Len(o) THEN o[index + 2] - o[index + 1]
                     ELSE l.total_len - offset)

\* C17: on a consistent OffsetSublists and for every i < len(), get_cloned(i)
\* and the i-th sublist of iter_cloned() have
\* offset = stored_offset[i] - stored_offset[0], and
\* len = stored_offset[i+1] - stored_offset[i], or total_len - offset for
\* the last index; random access and iteration agree on every index.
C17_OffsetSublistsDecoding ==
    /\ (lres.op = "get" /\ lres.self.kind = "offsets"
            /\ lres.arg < Slice_len(lres.self)) =>
          /\ lres.res.get = Ok(Some(DecodedSublist(lres.self, lres.arg)))
          /\ Slice_iter_cloned(lres.self).ok
          /\ Slice_iter_cloned(lres.self).val[lres.arg + 1]
                = Unwrap(lres.res.get.val)
    /\ (lres.op = "iter" /\ lres.self.kind = "offsets") =>
          /\ lres.res.iter.ok
          /\ Len(lres.res.iter.val) = Len(lres.self.original_offsets)
          /\ \A i \in 1 .. Len(lres.res.iter.val) :
                lres.res.iter.val[i] = DecodedSublist(lres.self, i - 1)

\* The last sublist was read from offsets that start above zero and leave
\* items after the last offset
C17_Witness ==
    /\ lres.op = "get"
    /\ lres.self.kind = "offsets"
    /\ Len(lres.self.original_offsets) = 3
    /\ lres.arg = 2
    /\ lres.self.original_offsets[1] > 0
    /\ lres.res.get.ok /\ IsSome(lres.res.get.val)
    /\ Unwrap(lres.res.get.val).len > 0
    /\ Unwrap(lres.res.get.val).offset > 0

\* The sublists of such offsets were iterated
C17_Iterated ==
    /\ lres.op = "iter"
    /\ lres.self.kind = "offsets"
    /\ lres.res.iter.ok
    /\ Len(lres.res.iter.val) = 3
    /\ lres.self.original_offsets[1] > 0
    /\ lres.res.iter.val[3].len > 0

\* split_at(mid) returned the offsets of l cut at mid, the left view holding
\* left_total items and the right view the rest
SplitsOffsetsWithLeftTotal(l, mid, res, left_total) ==
    /\ res.ok
    /\ res.val[1].original_offsets = Range(l.original_offsets, 0, mid)
    /\ res.val[2].original_offsets
          = Range(l.original_offsets, mid, Len(l.original_offsets))
    /\ res.val[1].total_len = left_total
    /\ res.val[2].total_len = l.total_len - left_total

\* split_at(mid) was called on a consistent OffsetSublists with mid <= len()
OffsetSublistsWasSplit ==
    /\ lres.op = "split_at"
    /\ lres.self.kind = "offsets"
    /\ lres.arg <= Len(lres.self.original_offsets)

\* C18 as stated: OffsetSublists::split_at(mid) splits the offsets at mid;
\* the left view's total_len is the stored offset of the first right-side
\* element, or the original total_len without a right side, and the right
\* view's total_len is the original one less that amount, on every
\* consistent view, also one whose first stored offset is not zero.
C18_SplitAtStoredOffsetTotal ==
    OffsetSublistsWasSplit =>
        LET l == lres.self
            mid == lres.arg
        IN  SplitsOffsetsWithLeftTotal(l, mid, lres.res,
                IF mid < Len(l.original_offsets) THEN l.original_offsets[mid + 1]
                ELSE l.total_len)

\* C18 amended: the left view's total_len is the stored offset of the first
\* right-side element less the first stored offset of the view that is
\* split, or the original total_len without a right side, and the right
\* view's total_len is the original one less that amount.
C18_SplitAtRelativeOffsetTotal ==
    OffsetSublistsWasSplit =>
        LET l == lres.self
            mid == lres.arg
        IN  SplitsOffsetsWithLeftTotal(l, mid, lres.res,
                IF mid < Len(l.original_offsets)
                THEN l.original_offsets[mid + 1] - l.original_offsets[1]
                ELSE l.total_len)

\* A view whose first stored offset is not zero was split with elements on
\* both sides and items on the left
C18_Witness ==
    /\ OffsetSublistsWasSplit
    /\ lres.res.ok
    /\ lres.self.original_offsets # <<>>
    /\ lres.self.original_offsets[1] > 0
    /\ lres.arg > 0
    /\ lres.arg < Len(lres.self.original_offsets)
    /\ lres.res.val[1].total_len > 0
    /\ lres.res.val[2].total_len > 0

---------------------------------------------------------------------------
(* Repeated splits of a ListReadSlice: the caller keeps every piece, in    *)
(* order, next to the slice it started from                                *)

\* The caller stops splitting once it holds this many splits
MaxSplits == 3

\* The pieces held, left to right
Pieces == lres.pieces

InitPieces ==
    /\ slice \in {Some(s) : s \in {s \in ListReadSliceInputs : Slice_is_consistent(s)}}
    /\ lres = [op |-> "pieces", pieces |-> <<Unwrap(slice)>>, splits |-> 0]
    /\ bits = <<>>
    /\ array_len = 0
    /\ bitmap = None
    /\ bres = NoOp
    /\ builder = None
    /\ xres = NoOp

\* pieces[k].split_at(mid) with mid < len: the two halves take the place of
\* the piece
SplitPiece(k, mid) ==
    /\ lres.splits < MaxSplits
    /\ k <= Len(Pieces)
    /\ mid < Slice_len(Pieces[k])
    /\ LET res == Slice_split_at(Pieces[k], mid) IN
       lres' = [op |-> "pieces",
                pieces |-> Range(Pieces, 0, k - 1)
                           \o (IF res.ok THEN res.val ELSE <<res>>)
                           \o Range(Pieces, k, Len(Pieces)),
                splits |-> lres.splits + 1]
    /\ UNCHANGED <<slice, bitmapVars, builderVars>>

NextPieces ==
    \E k \in 1 .. MaxSplits + 1, mid \in 0 .. MaxLists : SplitPiece(k, mid)

SpecPieces == InitPieces /\ [][NextPieces]_vars

RECURSIVE ConcatIterated(_)
\* The iterated sublists of the pieces, one piece after the other
ConcatIterated(pieces) ==
    IF pieces = <<>> THEN <<>>
    ELSE Slice_iter_cloned(Head(pieces)).val \o ConcatIterated(Tail(pieces))

\* Every sublist descriptor of the piece lies within the piece's own items,
\* the first one at their start and each next one where the last one ended
OffsetsRelativeToOwnItems(piece) ==
    LET sublists == iter_sublists(piece.lists)
        n == Slice_len(piece.items)
    IN  /\ sublists # <<>> => Sublist_offset(sublists[1]) = 0
        /\ \A i \in 1 .. Len(sublists) :
              /\ Sublist_offset(sublists[i]) + Sublist_len(sublists[i]) <= n
              /\ i < Len(sublists) =>
                    Sublist_offset(sublists[i + 1])
                       = Sublist_offset(sublists[i]) + Sublist_len(sublists[i])
              /\ get_sublist_unchecked(piece.lists, i - 1) = sublists[i]

\* C19: after any sequence of split_at(mid) with mid < len() on a consistent
\* offset-derived ListSlice and on the pieces it was split into, every piece
\* is a consistent ListSlice, the sublist offsets of each piece are relative
\* to the piece's own items, and the iterated sublists of the pieces, left
\* to right, are the iterated sublists of the original.
C19_RepeatedSplitsCompose ==
    lres.op = "pieces" =>
        /\ \A k \in 1 .. Len(Pieces) :
              /\ "kind" \in DOMAIN Pieces[k]
              /\ Pieces[k].kind = "list"
              /\ Slice_is_consistent(Pieces[k])
              /\ OffsetsRelativeToOwnItems(Pieces[k])
              /\ Slice_iter_cloned(Pieces[k]).ok
        /\ ConcatIterated(Pieces) = Slice_iter_cloned(Unwrap(slice)).val

\* A right-hand half was split again: four pieces, the third and the fourth
\* with a first stored offset above the original's, and sublists in each of
\* the last three
C19_Witness ==
    /\ lres.op = "pieces"
    /\ Len(Pieces) = 4
    /\ \A k \in 2 .. 4 :
          /\ Slice_len(Pieces[k]) = 1
          /\ Slice_len(Pieces[k].items) > 0
    /\ Pieces[4].lists.original_offsets[1] > Pieces[3].lists.original_offsets[1]
    /\ Pieces[3].lists.original_offsets[1] > Pieces[2].lists.original_offsets[1]

---------------------------------------------------------------------------
(* Optional sublist descriptors *)

\* Every descriptor of a null sublist that lists yields, by iteration or by
\* index, has length 0
NullDescriptorsAreEmpty(lists) ==
    LET sublists == iter_sublists(lists) IN
    \A i \in 1 .. Len(sublists) :
        /\ ~sublists[i].is_valid => Sublist_len(sublists[i]) = 0
        /\ ~get_sublist_unchecked(lists, i - 1).is_valid
              => Sublist_len(get_sublist_unchecked(lists, i - 1)) = 0

\* A consistent ListSlice with optional sublists was iterated
OptionalSublistsIterated ==
    /\ lres.op = "iter"
    /\ lres.self.kind = "list"
    /\ HasOptionalSublists(lres.self)

\* C20: in every consistent slice, every optional sublist descriptor with
\* is_valid = false has len = 0, in the explicit-length encoding
\* (&[Option<usize>]) and in the offset-derived one (OptionOffsetSublists).
C20_NullSublistsHaveNoLength ==
    OptionalSublistsIterated => NullDescriptorsAreEmpty(lres.self.lists)

\* The explicit-length encoding alone: a None length is a descriptor of
\* length 0
NullSublistsOfOptionLensHaveNoLength ==
    (OptionalSublistsIterated /\ lres.self.lists.kind = "option_lens")
        => NullDescriptorsAreEmpty(lres.self.lists)

\* A null sublist of the explicit-length encoding was met between valid ones
NullSublistOfOptionLensMet ==
    /\ OptionalSublistsIterated
    /\ lres.self.lists.kind = "option_lens"
    /\ Len(lres.self.lists.data) = 3
    /\ ~IsSome(lres.self.lists.data[2])
    /\ Slice_len(lres.self.items) > 0

---------------------------------------------------------------------------
(* Bitmap layout properties *)

\* C21: every Bitmap that is logically empty (len() = 0) has
\* header_len + trailer_len = 8, whether it comes from Bitmap::new (also
\* new(&[], 0)), from Default or from any sequence of split_at (also the
\* head of split_at(0)).
C21_EmptyBitmapHasEightUnusedBits ==
    (IsSome(bitmap) /\ Bitmap_len(Unwrap(bitmap)) = 0) =>
        Unwrap(bitmap).header_len + Unwrap(bitmap).trailer_len = 8

\* The empty Bitmaps that hold a byte: all of its 8 bits are unused
EmptyBitmapOverBytesHasEightUnusedBits ==
    (IsSome(bitmap) /\ Bitmap_len(Unwrap(bitmap)) = 0
        /\ Unwrap(bitmap).raw # <<>>) =>
        Unwrap(bitmap).header_len + Unwrap(bitmap).trailer_len = 8

\* An empty Bitmap over one byte was cut out by split_at
EmptyBitmapOverBytesMet ==
    /\ bres.op = "split_at" /\ bres.res.ok
    /\ IsSome(bitmap) /\ Bitmap_len(Unwrap(bitmap)) = 0
    /\ Len(Unwrap(bitmap).raw) = 1
    /\ Unwrap(bitmap).header_len > 0

\* C22: every Bitmap that comes from Bitmap::new, from Default or from any
\* sequence of split_at(mid) with mid <= len() has header_len in 0..7 and
\* trailer_len in 0..7, and split_at loses nothing when it narrows the new
\* header and trailer to u8.
C22_HeaderAndTrailerBelowEight ==
    /\ IsSome(bitmap) =>
          /\ Unwrap(bitmap).header_len \in 0 .. 7
          /\ Unwrap(bitmap).trailer_len \in 0 .. 7
    /\ (bres.op = "split_at" /\ bres.arg <= Bitmap_len(bres.self)) =>
          LET mid_bit == bres.arg + bres.self.header_len
              head == bres.res.val[1]
              tail == bres.res.val[2]
          IN  /\ bres.res.ok
              /\ head.trailer_len = Len(head.raw) * 8 - mid_bit
              /\ head.header_len \in 0 .. 7 /\ head.trailer_len \in 0 .. 7
              /\ tail.header_len \in 0 .. 7 /\ tail.trailer_len \in 0 .. 7

\* A Bitmap that starts inside a byte was split at the end of that byte: the
\* tail starts at the next byte, with no header
C22_Witness ==
    /\ bres.op = "split_at" /\ bres.res.ok
    /\ bres.self.header_len > 0
    /\ (bres.arg + bres.self.header_len) % 8 = 0
    /\ bres.res.val[2].header_len = 0
    /\ Bitmap_len(bres.res.val[2]) > 0

\* The head and the tail that C23 describes for bitmap.split_at(mid)
SplitLayout(b, mid) ==
    LET mid_bit == mid + b.header_len
        head_bytes == (mid_bit + 7) \div 8
        head_trailer == head_bytes * 8 - mid_bit
    IN  <<[kind |-> "bitmap", raw |-> SubSeq(b.raw, 1, head_bytes),
           header_len |-> b.header_len, trailer_len |-> head_trailer],
          [kind |-> "bitmap",
           raw |-> SubSeq(b.raw, (mid_bit \div 8) + 1, Len(b.raw)),
           header_len |-> IF mid_bit % 8 = 0 THEN 0 ELSE 8 - head_trailer,
           trailer_len |-> b.trailer_len]>>

\* C23: with mid_bit = mid + header_len, the head of split_at(mid) keeps
\* raw[..ceil(mid_bit/8)], the original header_len, and
\* trailer_len = head_bytes * 8 - mid_bit; the tail starts at byte
\* floor(mid_bit/8), has header_len 0 when mid_bit is a multiple of 8 and
\* 8 - head.trailer_len otherwise, and keeps the original trailer_len; head
\* and tail share exactly one byte iff mid_bit % 8 # 0.  Bytes [0xFF, 0x01]
\* with array_len 9 split at 8 give ([0xFF], trailer 0) and
\* ([0x01], header 0, trailer 7).
C23_SplitAtLayout ==
    (bres.op = "split_at" /\ bres.arg <= Bitmap_len(bres.self)) =>
        LET b == bres.self
            mid_bit == bres.arg + b.header_len
            head == bres.res.val[1]
            tail == bres.res.val[2]
        IN  /\ bres.res.ok
            /\ bres.res.val = SplitLayout(b, bres.arg)
            /\ Len(head.raw) + Len(tail.raw)
                  = Len(b.raw) + (IF mid_bit % 8 # 0 THEN 1 ELSE 0)
            /\ mid_bit % 8 # 0 => head.raw[Len(head.raw)] = tail.raw[1]
            /\ (b = [kind |-> "bitmap", raw |-> <<255, 1>>,
                     header_len |-> 0, trailer_len |-> 7] /\ bres.arg = 8) =>
                  /\ head = [kind |-> "bitmap", raw |-> <<255>>,
                             header_len |-> 0, trailer_len |-> 0]
                  /\ tail = [kind |-> "bitmap", raw |-> <<1>>,
                             header_len |-> 0, trailer_len |-> 7]

\* Bytes [0xFF, 0x01] with array_len 9 were split at 8
C23_Witness ==
    /\ bres.op = "split_at" /\ bres.res.ok
    /\ bres.self = [kind |-> "bitmap", raw |-> <<255, 1>>,
                    header_len |-> 0, trailer_len |-> 7]
    /\ bres.arg = 8

\* A Bitmap was split inside a byte that is neither its first nor its only
\* one
C23_SharedByte ==
    /\ bres.op = "split_at" /\ bres.res.ok
    /\ bres.self.header_len > 0
    /\ (bres.arg + bres.self.header_len) % 8 # 0
    /\ Len(bres.res.val[1].raw) = 2
    /\ Len(bres.res.val[2].raw) = 1

---------------------------------------------------------------------------
(* ListSlice element access *)

\* The element that C24 describes at index of the ListSlice s: the items
\* from the sum of the lengths of the sublists before index, as many as the
\* sublist is long, and None for a null sublist
ElementAt(s, index) ==
    LET lens == SublistLens(s.lists)
        offset == TotalLen(Range(lens, 0, index))
        list == [kind |-> "flat",
                 data |-> Range(s.items.data, offset, offset + lens[index + 1])]
        sublist == iter_sublists(s.lists)[index + 1]
    IN  IF ~HasOptionalSublists(s) THEN list
        ELSE IF sublist.is_valid THEN Some(list) ELSE None

\* get_cloned(index) was called within a consistent ListSlice
ListElementRead ==
    /\ lres.op = "get"
    /\ lres.self.kind = "list"
    /\ lres.arg < Slice_len(lres.self)

\* C24: for every consistent ListSlice over flat items and every i < len(),
\* get_cloned(i) is items[offset_i .. offset_i + len_i], offset_i being the
\* sum of the lengths of the sublists before i, as Some or None by the
\* validity of the sublist in the optional variants, and it is the i-th
\* element of iter_cloned().
C24_ListSliceElementAccess ==
    ListElementRead =>
        /\ lres.res.get = Ok(Some(ElementAt(lres.self, lres.arg)))
        /\ Slice_iter_cloned(lres.self).ok
        /\ Slice_iter_cloned(lres.self).val[lres.arg + 1]
              = ElementAt(lres.self, lres.arg)

\* The same on the encodings other than OptionOffsetSublists
ElementAccessExceptOptionOffsets ==
    (ListElementRead /\ lres.self.lists.kind # "option") =>
        /\ lres.res.get = Ok(Some(ElementAt(lres.self, lres.arg)))
        /\ Slice_iter_cloned(lres.self).ok
        /\ Slice_iter_cloned(lres.self).val[lres.arg + 1]
              = ElementAt(lres.self, lres.arg)

\* Random access and iteration agree, in all four encodings
GetAgreesWithIteration ==
    ListElementRead =>
        /\ lres.res.get.ok
        /\ Slice_iter_cloned(lres.self).ok
        /\ lres.res.get.val = Some(Slice_iter_cloned(lres.self).val[lres.arg + 1])

---------------------------------------------------------------------------
(* OptionSlice::split_at *)

\* split_at(mid) was called on a consistent OptionSlice with mid <= len()
OptionSliceWasSplit ==
    /\ lres.op = "split_at"
    /\ lres.self.kind = "option"
    /\ lres.arg <= Len(ValidityFlags(lres.self.is_valid))

\* C25: split_at(mid) on a consistent OptionSlice with mid <= len() splits
\* values and is_valid at the same index: the head has length mid, the tail
\* length len() - mid, and the elements of the head followed by those of the
\* tail are the elements of the original, also when is_valid is a Bitmap
\* that is split inside a byte.
C25_OptionSliceSplitAt ==
    OptionSliceWasSplit =>
        LET s == lres.self
            mid == lres.arg
            all == OptionElements(s)
        IN  /\ lres.res.ok
            /\ LET head == lres.res.val[1]
                   tail == lres.res.val[2]
               IN  /\ Slice_len(head) = mid
                   /\ Slice_len(tail) = Len(all) - mid
                   /\ Slice_len(head.values) = mid
                   /\ Slice_len(tail.values) = Len(all) - mid
                   /\ Slice_iter_cloned(head).ok /\ Slice_iter_cloned(tail).ok
                   /\ Slice_iter_cloned(head).val \o Slice_iter_cloned(tail).val
                         = all
                   /\ Slice_iter_cloned(head).val = Range(all, 0, mid)

\* An OptionSlice with valid and null elements, its validity a Bitmap that
\* already starts inside a byte, was split inside that byte
C25_Witness ==
    /\ OptionSliceWasSplit
    /\ lres.res.ok
    /\ lres.self.is_valid.kind = "bitmap"
    /\ lres.self.is_valid.header_len > 0
    /\ lres.arg > 0
    /\ lres.arg < Len(ValidityFlags(lres.self.is_valid))
    /\ lres.res.val[2].is_valid.header_len > lres.self.is_valid.header_len
    /\ \E i, j \in 1 .. Len(OptionElements(lres.self)) :
          IsSome(OptionElements(lres.self)[i]) /\ ~IsSome(OptionElements(lres.self)[j])

---------------------------------------------------------------------------
(* split_at and consistency *)

\* C26: for every consistent OptionSlice, OffsetSublists or ListSlice and
\* every mid for which split_at returns, both halves are consistent.
C26_SplitAtPreservesConsistency ==
    (lres.op = "split_at" /\ lres.self.kind \in {"option", "offsets", "list"}
        /\ lres.res.ok) =>
        /\ Slice_is_consistent(lres.res.val[1])
        /\ Slice_is_consistent(lres.res.val[2])

\* A half of an OptionListReadSlice was split again, with sublists and items
\* on both sides
C26_Witness ==
    /\ lres.op = "split_at" /\ lres.res.ok
    /\ lres.self.kind = "list"
    /\ lres.self.lists.kind = "option"
    /\ lres.self.lists.values.original_offsets[1] > 0
    /\ Slice_len(lres.res.val[1]) > 0
    /\ Slice_len(lres.res.val[2]) > 0
    /\ Slice_len(lres.res.val[1].items) > 0
    /\ Slice_len(lres.res.val[2].items) > 0

\* An OptionSlice and an OffsetSublists were split
C26_OtherSlicesSplit ==
    /\ lres.op = "split_at" /\ lres.res.ok
    /\ lres.self.kind \in {"option", "offsets"}
    /\ lres.arg > 0
    /\ Slice_len(lres.res.val[2]) > 0

---------------------------------------------------------------------------
(* ListSlice<Items, Lists> where Items is itself a ListSlice: a list of
   lists. The methods are those of ListSlice, with the calls on self.items
   resolved to ListSlice's own methods. *)

\* Slice::is_consistent of a ListSlice whose items are a ListSlice
ListOfLists_is_consistent(s) ==
    /\ ListSlice_is_consistent(s.items)
    /\ Inner_is_consistent(s.lists)
    /\ ListSlice_len(s.items) =
          (LET last == last_sublist(s.lists) IN
           IF IsSome(last)
           THEN usize_add(Sublist_offset(Unwrap(last)), Sublist_len(Unwrap(last)))
           ELSE 0)

\* Slice::len of a ListSlice whose items are a ListSlice
ListOfLists_len(s) == Inner_len(s.lists)

\* The end of ListSlice::get_cloned_unchecked: sublist.apply_validity(list),
\* where list_after is the outcome of start.split_at(sublist.len())
ListOfLists_apply_validity(sublist, list_after) ==
    IF ~list_after.ok THEN list_after
    ELSE Ok(apply_validity(sublist, list_after.val[1]))

\* The middle of ListSlice::get_cloned_unchecked: start.split_at(sublist.len()),
\* where before_start is the outcome of self.items.split_at(sublist.offset())
ListOfLists_split_len(sublist, before_start) ==
    IF ~before_start.ok THEN before_start
    ELSE ListOfLists_apply_validity(
             sublist,
             ListSlice_split_at(before_start.val[2], Sublist_len(sublist)))

\* The body of ListSlice::get_cloned_unchecked once the sublist is known
ListOfLists_sublist_items(s, sublist) ==
    ListOfLists_split_len(
        sublist, ListSlice_split_at(s.items, Sublist_offset(sublist)))

\* Slice::get_cloned_unchecked of a ListSlice whose items are a ListSlice
ListOfLists_get_cloned_unchecked(s, index) ==
    ListOfLists_sublist_items(s, get_sublist_unchecked(s.lists, index))

RECURSIVE ListOfLists_iter_from(_, _)
\* The closure of ListSlice::iter_cloned over items that are a ListSlice
ListOfLists_iter_from(remaining, sublists) ==
    IF sublists = <<>> THEN Ok(<<>>)
    ELSE LET sublist == Head(sublists)
             current_next == ListSlice_split_at(remaining, Sublist_len(sublist))
         IN  IF ~current_next.ok THEN current_next
             ELSE LET rest == ListOfLists_iter_from(current_next.val[2],
                                                    Tail(sublists))
                  IN  IF ~rest.ok THEN rest
                      ELSE Ok(<<apply_validity(sublist, current_next.val[1])>>
                              \o rest.val)

\* Slice::iter_cloned of a ListSlice whose items are a ListSlice
ListOfLists_iter_cloned(s) ==
    ListOfLists_iter_from(s.items, iter_sublists(s.lists))

\* Some(..) around the element that get_cloned_unchecked returned; a panic
\* goes through
ListOfLists_some(r) == IF r.ok THEN Ok(Some(r.val)) ELSE r

\* Slice::get_cloned of a ListSlice whose items are a ListSlice
ListOfLists_get_cloned(s, index) ==
    IF ListOfLists_is_consistent(s) /\ index < ListOfLists_len(s)
    THEN ListOfLists_some(ListOfLists_get_cloned_unchecked(s, index))
    ELSE Ok(None)

\* Most inner lists in a list of lists
MaxOuterLists == 2

\* Slices of lists of lists: a sequence of lengths over a ListWriteSlice or
\* a ListReadSlice
ListOfListsInputs ==
    {ListSlice(inner, [kind |-> "lens", data |-> lens]) :
        inner \in {s \in ListWriteSliceInputs \cup ListReadSliceInputs :
                      ListSlice_is_consistent(s)},
        lens \in SeqsUpTo(0 .. MaxLists, MaxOuterLists)}

InitNested ==
    /\ slice \in {Some(s) : s \in ListOfListsInputs}
    /\ lres = NoOp
    /\ bits = <<>>
    /\ array_len = 0
    /\ bitmap = None
    /\ bres = NoOp
    /\ builder = None
    /\ xres = NoOp

\* slice.is_consistent() on a list of lists
NestedIsConsistent ==
    /\ lres.op = "none"
    /\ lres' = [op |-> "nested_is_consistent", self |-> Unwrap(slice),
                res |-> ListOfLists_is_consistent(Unwrap(slice))]
    /\ UNCHANGED <<slice, bitmapVars, builderVars>>

\* slice.len() and slice.iter_cloned() collected, on a list of lists
NestedIter ==
    /\ lres.op = "none"
    /\ ListOfLists_is_consistent(Unwrap(slice))
    /\ lres' = [op |-> "nested_iter", self |-> Unwrap(slice),
                res |-> [len |-> ListOfLists_len(Unwrap(slice)),
                         iter |-> ListOfLists_iter_cloned(Unwrap(slice))]]
    /\ UNCHANGED <<slice, bitmapVars, builderVars>>

\* slice.get_cloned(index) on a list of lists
NestedGet(index) ==
    /\ lres.op = "none"
    /\ ListOfLists_is_consistent(Unwrap(slice))
    /\ lres' = [op |-> "nested_get", self |-> Unwrap(slice), arg |-> index,
                res |-> ListOfLists_get_cloned(Unwrap(slice), index)]
    /\ UNCHANGED <<slice, bitmapVars, builderVars>>

NextNested ==
    \/ NestedIsConsistent
    \/ NestedIter
    \/ \E index \in 0 .. MaxOuterLists : NestedGet(index)

SpecNested == InitNested /\ [][NextNested]_vars

\* C27: on every consistent ListSlice whose items are a ListSlice, iteration
\* yields len() sublists and get_cloned(i) returns an element for every
\* i < len(), without a panic, the last sublist and the sublists that end
\* where the inner slice ends included.
C27_NestedListsUsable ==
    /\ lres.op = "nested_iter" =>
          /\ lres.res.iter.ok
          /\ Len(lres.res.iter.val) = lres.res.len
    /\ (lres.op = "nested_get" /\ lres.arg < ListOfLists_len(lres.self)) =>
          /\ lres.res.ok
          /\ IsSome(lres.res.val)

\* The inner list that get_cloned(index) is to return ends before the end of
\* the inner slice
EndsInsideItems(s, index) ==
    LET sublist == get_sublist_unchecked(s.lists, index) IN
    usize_add(Sublist_offset(sublist), Sublist_len(sublist)) < ListSlice_len(s.items)

\* The inner lists that end before the end of the inner slice are returned,
\* and are made of the inner lists at their positions
NestedGetInsideItems ==
    (lres.op = "nested_get" /\ lres.arg < ListOfLists_len(lres.self)
        /\ EndsInsideItems(lres.self, lres.arg)) =>
        /\ lres.res.ok
        /\ IsSome(lres.res.val)
        /\ LET sublist == get_sublist_unchecked(lres.self.lists, lres.arg)
               got == ListSlice_iter_cloned(Unwrap(lres.res.val))
               all == ListSlice_iter_cloned(lres.self.items)
           IN  /\ got.ok
               /\ got.val = SubSeq(all.val, Sublist_offset(sublist) + 1,
                                   Sublist_offset(sublist) + Sublist_len(sublist))

\* Not a state where get_cloned returned an inner list of two lists
NestedGetInsideItemsMet ==
    ~(/\ lres.op = "nested_get" /\ lres.arg < ListOfLists_len(lres.self)
      /\ EndsInsideItems(lres.self, lres.arg)
      /\ lres.res.ok
      /\ ListSlice_len(Unwrap(lres.res.val)) = 2)

\* get_cloned of a sublist that ends where the inner slice ends panics
NestedGetAtEndPanics ==
    (lres.op = "nested_get" /\ lres.arg < ListOfLists_len(lres.self)
        /\ ~EndsInsideItems(lres.self, lres.arg)) => ~lres.res.ok
---------------------------------------------------------------------------
(* builder/backend/list.rs: a list builder whose items are optional, so   *)
(* that the items builder's extend_from_slice returns a Result            *)

\* <GenericListBuilder as TypedBackend<List<Option<T>>>>::push: the Result
\* of self.values().extend_from_slice(s) is dropped by the statement
ListOfOption_push(b, s) ==
    GenericListBuilder_append(
        [b EXCEPT !.items = Option_extend_from_slice(@, s).builder], TRUE)

\* <GenericListBuilder as TypedBackend<Option<List<Option<T>>>>>::push
OptionListOfOption_push(b, s) ==
    IF IsSome(s)
    THEN GenericListBuilder_append(
            [b EXCEPT !.items = Option_extend_from_slice(@, Unwrap(s)).builder],
            TRUE)
    ELSE GenericListBuilder_append(b, FALSE)

\* The caller stops pushing once the builder holds this many lists
MaxPushedLists == 2

InitItems ==
    /\ builder = Some(GenericListBuilder_new)
    /\ xres = NoOp
    /\ bits = <<>>
    /\ array_len = 0
    /\ bitmap = None
    /\ bres = NoOp
    /\ slice = None
    /\ lres = NoOp

\* TypedBuilder<List<Option<T>>>::push(s)
PushItems(s) ==
    /\ ListCount(Unwrap(builder)) < MaxPushedLists
    /\ builder' = Some(ListOfOption_push(Unwrap(builder), s))
    /\ xres' = [op |-> "push_items", arg |-> Some(s), before |-> Unwrap(builder)]
    /\ UNCHANGED <<bitmapVars, listVars>>

\* TypedBuilder<Option<List<Option<T>>>>::push(s)
PushOptionItems(s) ==
    /\ ListCount(Unwrap(builder)) < MaxPushedLists
    /\ builder' = Some(OptionListOfOption_push(Unwrap(builder), s))
    /\ xres' = [op |-> "push_items", arg |-> s, before |-> Unwrap(builder)]
    /\ UNCHANGED <<bitmapVars, listVars>>

NextItems ==
    \/ \E s \in OptionWriteSlices : PushItems(s)
    \/ \E s \in OptionWriteSlices : PushOptionItems(Some(s))
    \/ PushOptionItems(None)

SpecItems == InitItems /\ [][NextItems]_vars

\* The slice of the last push is one that the items builder's
\* extend_from_slice rejects
PushedSliceRejected ==
    /\ xres.op = "push_items"
    /\ IsSome(xres.arg)
    /\ Option_extend_from_slice(xres.before.items, Unwrap(xres.arg)).res # RustOk

\* The last sublist of the builder is valid and empty
LastSublistValidAndEmpty ==
    LET b == Unwrap(builder)
        n == ListCount(b)
    IN  /\ n > 0
        /\ b.nulls[n]
        /\ b.offsets[n + 1] = b.offsets[n]

\* C28: after push(slice) on a list builder the list count has grown by 1
\* and the items builder by the number of elements of slice, and a slice that
\* the items builder's extend_from_slice rejects has not produced an empty
\* valid sublist.
C28_PushKeepsItems ==
    xres.op = "push_items" =>
        /\ ListCount(Unwrap(builder)) = ListCount(xres.before) + 1
        /\ IsSome(xres.arg) =>
              ItemCount(Unwrap(builder)) =
                  ItemCount(xres.before) + OptionSlice_len(Unwrap(xres.arg))
        /\ ~(PushedSliceRejected /\ LastSublistValidAndEmpty)

\* A push of a slice that the items builder accepts, and a push of None,
\* grow the list count by 1 and the items by the elements of the slice, and
\* the new sublist spans these items
PushOfAcceptedSliceKeepsItems ==
    (xres.op = "push_items" /\ ~PushedSliceRejected) =>
        LET b == Unwrap(builder)
            n == ListCount(b)
            pushed == IF IsSome(xres.arg)
                      THEN OptionSlice_len(Unwrap(xres.arg)) ELSE 0
        IN  /\ n = ListCount(xres.before) + 1
            /\ ItemCount(b) = ItemCount(xres.before) + pushed
            /\ b.offsets[n + 1] - b.offsets[n] = pushed
            /\ b.nulls[n] = IsSome(xres.arg)
            /\ Len(b.items.validity) = ItemCount(b)

\* Not a state where a slice of two optional items was pushed after another
PushOfAcceptedSliceMet ==
    ~(/\ xres.op = "push_items" /\ ~PushedSliceRejected
      /\ IsSome(xres.arg)
      /\ OptionSlice_len(Unwrap(xres.arg)) = 2
      /\ ListCount(xres.before) = 1)

\* Every push of a rejected slice records an empty valid sublist
RejectedPushRecordsEmptySublist ==
    PushedSliceRejected => LastSublistValidAndEmpty
---------------------------------------------------------------------------
(* The buffer positions that get_cloned_unchecked reads, and the check    *)
(* that Slice::get_cloned makes before it calls get_cloned_unchecked      *)

\* get_cloned that lets an index equal to len() through
Slice_get_cloned_checks_through_len(s, index) ==
    Slice_is_consistent(s) /\ index <= Slice_len(s)

\* Slice::get_cloned: the condition under which get_cloned_unchecked is
\* called
Slice_get_cloned_checks(s, index) ==
    Slice_is_consistent(s) /\ index < Slice_len(s)

\* <Bitmap as Slice>::get_cloned_unchecked: the positions of self.raw given
\* to get_unchecked
Bitmap_get_cloned_unchecked_reads(b, index) ==
    LET bit == usize_add(index, b.header_len) IN {bit \div 8}

\* <OffsetSublists as Slice>::get_cloned_unchecked: the positions of
\* self.original_offsets given to get_unchecked
OffsetSublists_get_cloned_unchecked_reads(l, index) ==
    LET next_idx == usize_add(index, 1) IN
    {0, index} \cup (IF next_idx < Len(l.original_offsets) THEN {next_idx} ELSE {})

\* The positions read by get_cloned(index), none when it returns None
Slice_get_cloned_reads(s, index) ==
    IF ~Slice_get_cloned_checks(s, index) THEN {}
    ELSE IF s.kind = "bitmap" THEN Bitmap_get_cloned_unchecked_reads(s, index)
    ELSE OffsetSublists_get_cloned_unchecked_reads(s, index)

\* Length of the buffer that the slice borrows
BorrowedLen(s) ==
    IF s.kind = "bitmap" THEN Len(s.raw) ELSE Len(s.original_offsets)

\* Most bits of a bitmap that the caller reads from
MaxReadBits == 12

\* Bitmaps as Bitmap::new makes them, of every length, with every k-th bit set
ReadBitmaps ==
    {Bitmap_new(bits_to_bitmap([i \in 1 .. n |-> i % k = 0]), n).val :
        n \in 0 .. MaxReadBits, k \in 1 .. 3}

InitReads ==
    /\ \/ slice \in {Some(s) : s \in ReadBitmaps}
       \/ slice = Some(Bitmap_default)
       \/ slice \in {Some(s) : s \in OffsetSublistsInputs}
    /\ lres = NoOp
    /\ bits = <<>>
    /\ array_len = 0
    /\ bitmap = None
    /\ bres = NoOp
    /\ builder = None
    /\ xres = NoOp

\* slice.get_cloned(index), with the positions of the borrowed buffer that
\* the call reads
GetReads(index) ==
    /\ Holding
    /\ lres' = [op |-> "get_reads", self |-> Unwrap(slice), arg |-> index,
                unchecked |-> Slice_get_cloned_checks(Unwrap(slice), index),
                reads |-> Slice_get_cloned_reads(Unwrap(slice), index)]
    /\ UNCHANGED <<slice, bitmapVars, builderVars>>

NextReads ==
    \/ \E mid \in 0 .. MaxReadBits, keep \in 1 .. 2 : SliceSplitAt(mid, keep)
    \/ \E index \in 0 .. MaxReadBits + 1 : GetReads(index)

SpecReads == InitReads /\ [][NextReads]_vars

\* C29: get_cloned calls get_cloned_unchecked only on a consistent slice
\* and with index < len(), and then every position read is inside the
\* borrowed buffer: byte (index + header_len) / 8 of a Bitmap, offsets 0,
\* index and index + 1 of an OffsetSublists.
C29_UncheckedAccessesInBounds ==
    (lres.op = "get_reads" /\ lres.unchecked) =>
        /\ Slice_is_consistent(lres.self)
        /\ lres.arg < Slice_len(lres.self)
        /\ \A p \in lres.reads : p < BorrowedLen(lres.self)
        /\ lres.self.kind = "bitmap" =>
              lres.reads = {(lres.arg + lres.self.header_len) \div 8}
        /\ lres.self.kind = "offsets" =>
              lres.reads \subseteq {0, lres.arg, lres.arg + 1}

\* Not a state where the last bit of the second half of a bitmap, which
\* starts inside a byte, was read from the last of its bytes
C29_Witness ==
    ~(/\ lres.op = "get_reads" /\ lres.unchecked
      /\ lres.self.kind = "bitmap"
      /\ lres.self.header_len > 0
      /\ lres.self.trailer_len > 0
      /\ Len(lres.self.raw) = 2
      /\ lres.arg = Slice_len(lres.self) - 1
      /\ lres.reads = {1})

\* Not a state where the last sublist of the second half of an
\* OffsetSublists was read
C29_LastSublistRead ==
    ~(/\ lres.op = "get_reads" /\ lres.unchecked
      /\ lres.self.kind = "offsets"
      /\ lres.self.original_offsets[1] > 0
      /\ lres.arg = Slice_len(lres.self) - 1
      /\ lres.arg > 0
      /\ lres.reads = {0, lres.arg})

\* Not a state where get_cloned returned None without a read
C29_Refused ==
    ~(lres.op = "get_reads" /\ ~lres.unchecked /\ lres.reads = {}
        /\ lres.arg = Slice_len(lres.self))
---------------------------------------------------------------------------
(* The usize subtractions of OffsetSublists, as pairs <<minuend,          *)
(* subtrahend>> in the order the code makes them, over offsets of a       *)
(* signed type.  as_usize of a negative offset is its two's complement.   *)

\* <OffsetSublists as Slice>::get_cloned_unchecked: its usize subtractions
OffsetSublists_get_cloned_unchecked_subs(l, index) ==
    LET shift == as_usize(l.original_offsets[1])
        original_offset == as_usize(l.original_offsets[index + 1])
        relative_offset == usize_sub(original_offset, shift)
        next_idx == index + 1
    IN  <<<<original_offset, shift>>,
          IF next_idx < Len(l.original_offsets)
          THEN <<as_usize(l.original_offsets[next_idx + 1]), original_offset>>
          ELSE <<l.total_len, relative_offset>>>>

RECURSIVE Flatten(_)
\* Iterator::flatten over a sequence of sequences
Flatten(ss) == IF ss = <<>> THEN <<>> ELSE Head(ss) \o Flatten(Tail(ss))

\* <OffsetSublists as Slice>::iter_cloned: its usize subtractions
OffsetSublists_iter_cloned_subs(l) ==
    LET offsets == l.original_offsets
        shift == offset_shift(l)
    IN  Flatten([i \in 1 .. Len(offsets) |->
            IF i < Len(offsets)
            THEN <<<<as_usize(offsets[i]), shift>>>>
            ELSE LET offset == usize_sub(as_usize(offsets[i]), shift) IN
                 <<<<as_usize(offsets[i]), shift>>, <<l.total_len, offset>>>>])

\* <OffsetSublists as Slice>::split_at: its usize subtractions
OffsetSublists_split_at_subs(l, mid) ==
    LET right_offsets == Range(l.original_offsets, mid, Len(l.original_offsets))
    IN  IF mid > Len(l.original_offsets) \/ right_offsets = <<>> THEN <<>>
        ELSE LET relative_offset ==
                     usize_sub(as_usize(right_offsets[1]), offset_shift(l))
             IN  <<<<as_usize(right_offsets[1]), offset_shift(l)>>,
                   <<l.total_len, relative_offset>>>>

\* Offsets below zero go down to minus this
MaxNegative == 2

\* Offsets above zero go up to this
MaxSignedOffset == 3

\* Most offsets in a buffer of signed offsets
MaxSignedLists == 3

\* Largest total_len given with a buffer of signed offsets
MaxSignedItems == 4

\* OffsetSublists over buffers of signed offsets, in any order
SignedOffsetSublistsInputs ==
    {OffsetSublists(o, total_len) :
        o \in SeqsUpTo(-MaxNegative .. MaxSignedOffset, MaxSignedLists),
        total_len \in 0 .. MaxSignedItems}

InitSigned ==
    /\ slice \in {Some(s) : s \in SignedOffsetSublistsInputs}
    /\ lres = NoOp
    /\ bits = <<>>
    /\ array_len = 0
    /\ bitmap = None
    /\ bres = NoOp
    /\ builder = None
    /\ xres = NoOp

\* slice.is_consistent()
SignedIsConsistent ==
    /\ Holding
    /\ lres' = [op |-> "signed_is_consistent", self |-> Unwrap(slice),
                res |-> OffsetSublists_is_consistent(Unwrap(slice))]
    /\ UNCHANGED <<slice, bitmapVars, builderVars>>

\* slice.get_cloned(index) where it calls get_cloned_unchecked
SignedGet(index) ==
    /\ Holding
    /\ OffsetSublists_is_consistent(Unwrap(slice))
    /\ index < OffsetSublists_len(Unwrap(slice))
    /\ lres' = [op |-> "signed_get", self |-> Unwrap(slice), arg |-> index,
                res |-> <<OffsetSublists_get_cloned_unchecked(Unwrap(slice), index)>>,
                subs |-> OffsetSublists_get_cloned_unchecked_subs(Unwrap(slice), index)]
    /\ UNCHANGED <<slice, bitmapVars, builderVars>>

\* slice.iter_cloned() collected
SignedIter ==
    /\ Holding
    /\ OffsetSublists_is_consistent(Unwrap(slice))
    /\ lres' = [op |-> "signed_iter", self |-> Unwrap(slice),
                res |-> OffsetSublists_iter_cloned(Unwrap(slice)),
                subs |-> OffsetSublists_iter_cloned_subs(Unwrap(slice))]
    /\ UNCHANGED <<slice, bitmapVars, builderVars>>

\* slice.split_at(mid); the caller goes on with one of the two halves
SignedSplitAt(mid, keep) ==
    /\ Holding
    /\ OffsetSublists_is_consistent(Unwrap(slice))
    /\ LET res == OffsetSublists_split_at(Unwrap(slice), mid) IN
       /\ lres' = [op |-> "split_at", self |-> Unwrap(slice), arg |-> mid,
                   res |-> res,
                   subs |-> OffsetSublists_split_at_subs(Unwrap(slice), mid)]
       /\ slice' = IF res.ok THEN Some(res.val[keep]) ELSE slice
    /\ UNCHANGED <<bitmapVars, builderVars>>

NextSigned ==
    \/ SignedIsConsistent
    \/ \E index \in 0 .. MaxSignedLists - 1 : SignedGet(index)
    \/ SignedIter
    \/ \E mid \in 0 .. MaxSignedLists + 1, keep \in 1 .. 2 : SignedSplitAt(mid, keep)

SpecSigned == InitSigned /\ [][NextSigned]_vars

\* One of the usize subtractions has a subtrahend above its minuend
Underflows(subs) == \E i \in 1 .. Len(subs) : subs[i][1] < subs[i][2]

\* The buffer holds an offset below zero
HasNegativeOffset(l) ==
    \E i \in 1 .. Len(l.original_offsets) : l.original_offsets[i] < 0

\* C30: on every OffsetSublists that is_consistent() accepts, buffers with
\* negative offsets included, no usize subtraction of get, iteration or
\* split_at underflows, and every sublist produced has
\* offset + len <= total_len.
C30_ConsistentOffsetsSubtractSafely ==
    (lres.op \in {"signed_get", "signed_iter", "split_at"}
        /\ OffsetSublists_is_consistent(lres.self)) =>
        /\ ~Underflows(lres.subs)
        /\ lres.op \in {"signed_get", "signed_iter"} =>
              \A i \in 1 .. Len(lres.res) :
                  lres.res[i].offset + lres.res[i].len <= lres.self.total_len

\* The statement holds on the buffers that hold no negative offset
NonNegativeOffsetsSubtractSafely ==
    (lres.op \in {"signed_get", "signed_iter", "split_at"}
        /\ OffsetSublists_is_consistent(lres.self)
        /\ ~HasNegativeOffset(lres.self)) =>
        /\ ~Underflows(lres.subs)
        /\ lres.op \in {"signed_get", "signed_iter"} =>
              \A i \in 1 .. Len(lres.res) :
                  lres.res[i].offset + lres.res[i].len <= lres.self.total_len

\* Not a state where three sublists with a first offset above zero were
\* iterated
NonNegativeOffsetsMet ==
    ~(/\ lres.op = "signed_iter"
      /\ Len(lres.self.original_offsets) = 3
      /\ lres.self.original_offsets[1] > 0
      /\ lres.self.original_offsets[3] > lres.self.original_offsets[1])

\* Where the subtractions wrap, the sublists produced are still within
\* total_len
WrappedSublistsWithinTotalLen ==
    (lres.op \in {"signed_get", "signed_iter"}
        /\ OffsetSublists_is_consistent(lres.self)) =>
        \A i \in 1 .. Len(lres.res) :
            lres.res[i].offset + lres.res[i].len <= lres.self.total_len

\* is_consistent() never refuses a sorted buffer for a negative offset
NegativeOffsetsAccepted ==
    (lres.op = "signed_is_consistent" /\ HasNegativeOffset(lres.self)
        /\ ~lres.res) =>
        LET o == lres.self.original_offsets IN
        \/ \E i \in 2 .. Len(o) : o[i] < o[i - 1]
        \/ o[Len(o)] - o[1] > lres.self.total_len
=============================================================================
